---- MODULE Spec2Model ----
(***************************************************************************)
(* A model of the cleaning pipeline and the analyzers of the Airbnb       *)
(* market analyzer (src/src/data_cleaner.py, src/src/analyzers/*.py).     *)
(*                                                                         *)
(* Text is modelled as sequences of one-character strings, numbers as     *)
(* exact rationals n/d, and a table cell as a record with a type tag, so  *)
(* that parsing and formatting are computed and not assumed.              *)
(***************************************************************************)
EXTENDS Integers, Sequences, FiniteSets, TLC

VARIABLES
    pc,       \* position of the running pipeline / call
    cfg,      \* the configuration (settings.yaml as loaded by load_config)
    caller,   \* the table object the caller passed in
    work,     \* the table object the pipeline works on (a copy or a new frame)
    dfref,    \* which object the local name df is bound to: "caller" or "work"
    input,    \* history: the caller's table as it was when the call started
    pass,     \* 1 on the first run of the pipeline, 2 when its output is fed back
    first,    \* history: the table returned by the first run
    today,    \* the date pd.Timestamp.now().normalize() gives during the run
    fn_in,    \* argument of the pure function under test
    fn_out,   \* its outcome
    fn_first, \* history: outcome of the first application
    calendar, \* the calendar table the SeasonalityAnalyzer holds
    geo,      \* the geo boundaries the NeighborhoodAnalyzer holds, or None
    op,       \* the analyzer method called last, with its argument
    result    \* what that call returned or raised

vars == <<pc, cfg, caller, work, dfref, input, pass, first, today, fn_in, fn_out, fn_first,
          calendar, geo, op, result>>

-----------------------------------------------------------------------------
(* Bounds of the model *)

\* longest text enumerated as an argument of clean_price
MaxPriceLen == 3
\* longest text enumerated as an argument of parse_amenities
MaxAmenLen == 5
\* most rows of a raw listing table
MaxRows == 2
\* most rows of a raw calendar table
MaxCalRows == 2

-----------------------------------------------------------------------------
(* Sequences and numbers *)

Abs(n) == IF n < 0 THEN -n ELSE n

RECURSIVE GCD(_, _)
GCD(a, b) == IF b = 0 THEN a ELSE GCD(b, a % b)

RECURSIVE Pow10(_)
Pow10(k) == IF k = 0 THEN 1 ELSE 10 * Pow10(k - 1)

\* the rational n/d in lowest terms, d > 0
Rat(n, d) ==
    LET g == GCD(Abs(n), Abs(d))
        sgn == IF d < 0 THEN -1 ELSE 1
    IN  [n |-> sgn * (n \div g), d |-> sgn * (d \div g)]

RatLe(a, b) == a.n * b.d <= b.n * a.d
RatLt(a, b) == a.n * b.d < b.n * a.d
\* sums and differences over the least common denominator
RatAdd(a, b) ==
    LET g == GCD(a.d, b.d)
    IN  Rat(a.n * (b.d \div g) + b.n * (a.d \div g), (a.d \div g) * b.d)
RatSub(a, b) == RatAdd(a, [n |-> -b.n, d |-> b.d])
RatMul(a, b) == Rat(a.n * b.n, a.d * b.d)
\* b # 0
RatDiv(a, b) == Rat(a.n * b.d, a.d * b.n)

\* all sequences over S of length at most n
SeqsUpTo(S, n) == UNION {[1..k -> S] : k \in 0..n}

-----------------------------------------------------------------------------
(* Python text: str.replace, str.strip, str(), float() *)

Digits == <<"0", "1", "2", "3", "4", "5", "6", "7", "8", "9">>
DigitSet == {Digits[i] : i \in 1..10}
DigitVal(c) == (CHOOSE i \in 1..10 : Digits[i] = c) - 1

Whitespace == {" "}

RECURSIVE RemoveChar(_, _)
\* str.replace(c, "")
RemoveChar(s, c) ==
    IF s = <<>> THEN <<>>
    ELSE IF Head(s) = c THEN RemoveChar(Tail(s), c)
    ELSE <<Head(s)>> \o RemoveChar(Tail(s), c)

RECURSIVE LStrip(_)
LStrip(s) == IF s # <<>> /\ Head(s) \in Whitespace THEN LStrip(Tail(s)) ELSE s

RECURSIVE RStrip(_)
RStrip(s) ==
    IF s # <<>> /\ s[Len(s)] \in Whitespace THEN RStrip(SubSeq(s, 1, Len(s) - 1)) ELSE s

\* str.strip()
Strip(s) == RStrip(LStrip(s))

RECURSIVE DigitsToNat(_)
\* the value of a sequence of decimal digits
DigitsToNat(s) ==
    IF s = <<>> THEN 0 ELSE 10 * DigitsToNat(SubSeq(s, 1, Len(s) - 1)) + DigitVal(s[Len(s)])

RECURSIVE NatToDigits(_)
NatToDigits(n) ==
    IF n < 10 THEN <<Digits[n + 1]>> ELSE NatToDigits(n \div 10) \o <<Digits[(n % 10) + 1]>>

RECURSIVE PadLeft(_, _)
PadLeft(s, k) == IF Len(s) >= k THEN s ELSE PadLeft(<<"0">> \o s, k)

AllDigits(s) == \A i \in 1..Len(s) : s[i] \in DigitSet

\* str.lower() on the letters float() looks at
Lower(c) ==
    CASE c = "I" -> "i" [] c = "N" -> "n" [] c = "F" -> "f" [] c = "A" -> "a"
      [] c = "T" -> "t" [] c = "Y" -> "y" [] OTHER -> c

LowerSeq(s) == [i \in 1..Len(s) |-> Lower(s[i])]

-----------------------------------------------------------------------------
(* Table cells (scalars) *)

\* a missing value: None, NaN, NaT
NA == [t |-> "na", s |-> <<>>, n |-> 0, d |-> 1, l |-> <<>>]
\* a str
Str(s) == [t |-> "str", s |-> s, n |-> 0, d |-> 1, l |-> <<>>]
\* a finite float
Float(r) == [t |-> "float", s |-> <<>>, n |-> r.n, d |-> r.d, l |-> <<>>]
\* an int
IntC(n) == [t |-> "int", s |-> <<>>, n |-> n, d |-> 1, l |-> <<>>]
\* float("inf") (sign = 1) and float("-inf") (sign = -1)
Inf(sign) == [t |-> "inf", s |-> <<>>, n |-> sign, d |-> 1, l |-> <<>>]
\* a bool
BoolC(b) == [t |-> "bool", s |-> <<>>, n |-> IF b THEN 1 ELSE 0, d |-> 1, l |-> <<>>]
\* a list of str
ListC(l) == [t |-> "list", s |-> <<>>, n |-> 0, d |-> 1, l |-> l]

\* pd.isna on a scalar
IsNA(x) == x.t = "na"

IsFinite(x) == x.t \in {"float", "int"}
IsNumber(x) == x.t \in {"float", "int", "inf"}
RatOf(x) == [n |-> x.n, d |-> x.d]

\* x == y on two numbers
NumEq(x, y) ==
    \/ IsFinite(x) /\ IsFinite(y) /\ RatOf(x) = RatOf(y)
    \/ x.t = "inf" /\ y.t = "inf" /\ x.n = y.n

\* x <= y on numbers; any comparison with a missing value is False
NumLe(x, y) ==
    CASE IsNA(x) \/ IsNA(y) -> FALSE
      [] x.t = "inf" -> x.n = -1 \/ (y.t = "inf" /\ y.n = 1)
      [] y.t = "inf" -> y.n = 1
      [] OTHER -> RatLe(RatOf(x), RatOf(y))

NumLt(x, y) == NumLe(x, y) /\ ~NumEq(x, y)

\* repr of a finite float whose value is a decimal fraction: "50.0", "1234.56"
FormatFloat(r) ==
    LET k == CHOOSE j \in 1..18 : Pow10(j) % r.d = 0 /\ \A i \in 1..(j - 1) : Pow10(i) % r.d # 0
        scaled == (Abs(r.n) * Pow10(k)) \div r.d
        whole == NatToDigits(scaled \div Pow10(k))
        frac == PadLeft(NatToDigits(scaled % Pow10(k)), k)
    IN  (IF r.n < 0 THEN <<"-">> ELSE <<>>) \o whole \o <<".">> \o frac

\* str(x)
PyStr(x) ==
    CASE x.t = "str" -> x.s
      [] x.t = "float" -> FormatFloat(RatOf(x))
      [] x.t = "int" -> (IF x.n < 0 THEN <<"-">> ELSE <<>>) \o NatToDigits(Abs(x.n))
      [] x.t = "inf" -> IF x.n < 0 THEN <<"-", "i", "n", "f">> ELSE <<"i", "n", "f">>
      [] x.t = "bool" -> IF x.n = 1 THEN <<"T", "r", "u", "e">> ELSE <<"F", "a", "l", "s", "e">>
      [] OTHER -> <<"n", "a", "n">>

\* position of the first "." of s, 0 when there is none
DotAt(s) ==
    IF \E i \in 1..Len(s) : s[i] = "."
    THEN CHOOSE i \in 1..Len(s) : s[i] = "." /\ \A j \in 1..(i - 1) : s[j] # "."
    ELSE 0

\* float(s) on text without exponent and without digit-group underscores:
\* [exc |-> "ValueError"] when s is no float literal, else the value in v
\* (float("nan") is the missing value)
ParseFloat(s) ==
    LET t == Strip(s)
        signed == t # <<>> /\ Head(t) \in {"+", "-"}
        sign == IF signed /\ Head(t) = "-" THEN -1 ELSE 1
        body == IF signed THEN Tail(t) ELSE t
        low == LowerSeq(body)
        dot == DotAt(body)
        ip == IF dot = 0 THEN body ELSE SubSeq(body, 1, dot - 1)
        fp == IF dot = 0 THEN <<>> ELSE SubSeq(body, dot + 1, Len(body))
    IN  CASE low \in {<<"i", "n", "f">>, <<"i", "n", "f", "i", "n", "i", "t", "y">>} ->
               [exc |-> "none", v |-> Inf(sign)]
          [] low = <<"n", "a", "n">> -> [exc |-> "none", v |-> NA]
          [] AllDigits(ip) /\ AllDigits(fp) /\ Len(ip) + Len(fp) >= 1 ->
               [exc |-> "none",
                v |-> Float(Rat(sign * (DigitsToNat(ip) * Pow10(Len(fp)) + DigitsToNat(fp)),
                                Pow10(Len(fp))))]
          [] OTHER -> [exc |-> "ValueError", v |-> NA]

\* the outcome of a call: the exception that escaped it ("none" when it returned) and
\* the value returned
Returned(v) == [exc |-> "none", v |-> v]
Raised(e) == [exc |-> e, v |-> NA]
NoOutcome == [exc |-> "none", v |-> NA]

\* clean_price that parses text only: any other non-missing argument gives NaN
CleanPriceTextOnly(price_str) ==
    IF IsNA(price_str) \/ price_str.t # "str" THEN Returned(NA)
    ELSE LET s == Strip(RemoveChar(RemoveChar(price_str.s, "$"), ","))
             p == ParseFloat(s)
         IN  IF p.exc = "ValueError" THEN Returned(NA) ELSE Returned(p.v)

\* clean_price(price_str)
clean_price(price_str) ==
    IF IsNA(price_str) THEN Returned(NA)
    ELSE LET s == Strip(RemoveChar(RemoveChar(PyStr(price_str), "$"), ","))
             p == ParseFloat(s)
         IN  IF p.exc = "ValueError" THEN Returned(NA)
             ELSE IF p.exc # "none" THEN Raised(p.exc)
             ELSE Returned(p.v)

-----------------------------------------------------------------------------
(* json.loads on text: strings without escapes, integers, null/true/false and  *)
(* arrays (objects, fractions and exponents are outside the texts enumerated)  *)

JStr(s) == [k |-> "str", s |-> s, n |-> 0, items |-> <<>>]
JNum(n) == [k |-> "num", s |-> <<>>, n |-> n, items |-> <<>>]
JNull == [k |-> "null", s |-> <<>>, n |-> 0, items |-> <<>>]
JBool(b) == [k |-> "bool", s |-> <<>>, n |-> IF b THEN 1 ELSE 0, items |-> <<>>]
JList(items) == [k |-> "list", s |-> <<>>, n |-> 0, items |-> items]

JFail == [ok |-> FALSE, v |-> JNull, next |-> 0]
JOk(v, next) == [ok |-> TRUE, v |-> v, next |-> next]

RECURSIVE SkipWs(_, _)
\* the first position from i on that holds no whitespace
SkipWs(s, i) == IF i <= Len(s) /\ s[i] \in Whitespace THEN SkipWs(s, i + 1) ELSE i

HasPrefixAt(s, i, w) == i + Len(w) - 1 <= Len(s) /\ SubSeq(s, i, i + Len(w) - 1) = w

RECURSIVE DigitsEnd(_, _)
\* the first position from i on that holds no digit
DigitsEnd(s, i) == IF i <= Len(s) /\ s[i] \in DigitSet THEN DigitsEnd(s, i + 1) ELSE i

\* an integer literal at i: "0", or a nonzero digit followed by digits
ParseJsonInt(s, i, sign) ==
    IF i > Len(s) \/ s[i] \notin DigitSet THEN JFail
    ELSE IF s[i] = "0" THEN JOk(JNum(0), i + 1)
    ELSE LET e == DigitsEnd(s, i)
         IN  JOk(JNum(sign * DigitsToNat(SubSeq(s, i, e - 1))), e)

RECURSIVE ParseJsonValue(_, _)
RECURSIVE ParseJsonItems(_, _, _)

\* the items of an array from the value at i on, up to its closing bracket
ParseJsonItems(s, i, acc) ==
    LET r == ParseJsonValue(s, i)
        j == SkipWs(s, r.next)
    IN  IF ~r.ok \/ j > Len(s) THEN JFail
        ELSE IF s[j] = "]" THEN JOk(JList(Append(acc, r.v)), j + 1)
        ELSE IF s[j] = "," THEN ParseJsonItems(s, SkipWs(s, j + 1), Append(acc, r.v))
        ELSE JFail

\* the JSON value that starts at position i
ParseJsonValue(s, i) ==
    IF i > Len(s) THEN JFail
    ELSE CASE s[i] = "\"" ->
                IF \E j \in (i + 1)..Len(s) : s[j] = "\""
                THEN LET j == CHOOSE j \in (i + 1)..Len(s) :
                                 s[j] = "\"" /\ \A m \in (i + 1)..(j - 1) : s[m] # "\""
                     IN  JOk(JStr(SubSeq(s, i + 1, j - 1)), j + 1)
                ELSE JFail
           [] s[i] = "[" ->
                LET j == SkipWs(s, i + 1)
                IN  IF j <= Len(s) /\ s[j] = "]" THEN JOk(JList(<<>>), j + 1)
                    ELSE ParseJsonItems(s, j, <<>>)
           [] s[i] = "-" -> ParseJsonInt(s, i + 1, -1)
           [] s[i] \in DigitSet -> ParseJsonInt(s, i, 1)
           [] HasPrefixAt(s, i, <<"n", "u", "l", "l">>) -> JOk(JNull, i + 4)
           [] HasPrefixAt(s, i, <<"t", "r", "u", "e">>) -> JOk(JBool(TRUE), i + 4)
           [] HasPrefixAt(s, i, <<"f", "a", "l", "s", "e">>) -> JOk(JBool(FALSE), i + 5)
           [] OTHER -> JFail

\* json.loads(x): TypeError when x is no text, JSONDecodeError when the text is not
\* one JSON value (surrounding whitespace allowed), else the value
JsonLoads(x) ==
    IF x.t # "str" THEN [exc |-> "TypeError", v |-> JNull]
    ELSE LET r == ParseJsonValue(x.s, SkipWs(x.s, 1))
         IN  IF r.ok /\ SkipWs(x.s, r.next) = Len(x.s) + 1
             THEN [exc |-> "none", v |-> r.v]
             ELSE [exc |-> "JSONDecodeError", v |-> JNull]

\* bool(a) of a parsed JSON value
Truthy(a) ==
    CASE a.k = "str" -> a.s # <<>>
      [] a.k = "num" -> a.n # 0
      [] a.k = "bool" -> a.n = 1
      [] a.k = "list" -> a.items # <<>>
      [] OTHER -> FALSE

RECURSIVE PyRepr(_)
RECURSIVE PyReprItems(_)

\* ", ".join(repr(a) for a in items)
PyReprItems(items) ==
    IF items = <<>> THEN <<>>
    ELSE IF Len(items) = 1 THEN PyRepr(items[1])
    ELSE PyRepr(items[1]) \o <<",", " ">> \o PyReprItems(Tail(items))

\* repr(a) of a parsed JSON value
PyRepr(a) ==
    CASE a.k = "str" -> <<"'">> \o a.s \o <<"'">>
      [] a.k = "num" -> (IF a.n < 0 THEN <<"-">> ELSE <<>>) \o NatToDigits(Abs(a.n))
      [] a.k = "bool" -> IF a.n = 1 THEN <<"T", "r", "u", "e">> ELSE <<"F", "a", "l", "s", "e">>
      [] a.k = "list" -> <<"[">> \o PyReprItems(a.items) \o <<"]">>
      [] OTHER -> <<"N", "o", "n", "e">>

\* str(a) of a parsed JSON value
PyStrJson(a) == IF a.k = "str" THEN a.s ELSE PyRepr(a)

RECURSIVE AmenityNames(_)
\* [str(a).strip() for a in parsed if a]
AmenityNames(parsed) ==
    IF parsed = <<>> THEN <<>>
    ELSE IF Truthy(Head(parsed))
         THEN <<Strip(PyStrJson(Head(parsed)))>> \o AmenityNames(Tail(parsed))
         ELSE AmenityNames(Tail(parsed))

\* parse_amenities with an except clause that names JSONDecodeError alone
ParseAmenitiesNarrowExcept(amenities_str) ==
    IF IsNA(amenities_str) THEN Returned(ListC(<<>>))
    ELSE LET j == JsonLoads(amenities_str)
         IN  IF j.exc = "JSONDecodeError" THEN Returned(ListC(<<>>))
             ELSE IF j.exc # "none" THEN Raised(j.exc)
             ELSE IF j.v.k = "list" THEN Returned(ListC(AmenityNames(j.v.items)))
             ELSE Returned(ListC(<<>>))

\* parse_amenities(amenities_str)
parse_amenities(amenities_str) ==
    IF IsNA(amenities_str) THEN Returned(ListC(<<>>))
    ELSE LET j == JsonLoads(amenities_str)
         IN  IF j.exc \in {"JSONDecodeError", "TypeError"} THEN Returned(ListC(<<>>))
             ELSE IF j.exc # "none" THEN Raised(j.exc)
             ELSE IF j.v.k = "list" THEN Returned(ListC(AmenityNames(j.v.items)))
             ELSE Returned(ListC(<<>>))

-----------------------------------------------------------------------------
(* Dates: pd.to_datetime(..., errors="coerce") on ISO texts, .dt.month, .dt.dayofweek *)

\* a Timestamp for the calendar date y-m-d
Date(y, m, d) == [t |-> "date", s |-> <<>>, n |-> y * 10000 + m * 100 + d, d |-> 1, l |-> <<>>]

YearOf(x) == x.n \div 10000
MonthOf(x) == (x.n \div 100) % 100
DayOf(x) == x.n % 100

IsLeap(y) == (y % 4 = 0 /\ y % 100 # 0) \/ y % 400 = 0

DaysInMonth(y, m) ==
    CASE m \in {1, 3, 5, 7, 8, 10, 12} -> 31
      [] m \in {4, 6, 9, 11} -> 30
      [] OTHER -> IF IsLeap(y) THEN 29 ELSE 28

\* days from 1970-01-01 to y-m-d (proleptic Gregorian calendar)
DaysFromCivil(y, m, d) ==
    LET yy == IF m <= 2 THEN y - 1 ELSE y
        era == yy \div 400
        yoe == yy - era * 400
        mp == IF m > 2 THEN m - 3 ELSE m + 9
        doy == (153 * mp + 2) \div 5 + d - 1
        doe == yoe * 365 + yoe \div 4 - yoe \div 100 + doy
    IN  era * 146097 + doe - 719468

Ordinal(x) == DaysFromCivil(YearOf(x), MonthOf(x), DayOf(x))

\* Timestamp.dayofweek: Monday = 0 ... Sunday = 6 (1970-01-01 was a Thursday)
DayOfWeek(x) == (Ordinal(x) + 3) % 7

\* pd.to_datetime(x, errors="coerce") on one cell: a Timestamp stays, an ISO text
\* "YYYY-MM-DD" naming a day of the calendar is parsed, anything else is NaT
ToDatetime(x) ==
    IF x.t = "date" THEN x
    ELSE IF x.t = "str" /\ Len(x.s) = 10 /\ x.s[5] = "-" /\ x.s[8] = "-"
              /\ AllDigits(SubSeq(x.s, 1, 4)) /\ AllDigits(SubSeq(x.s, 6, 7))
              /\ AllDigits(SubSeq(x.s, 9, 10))
         THEN LET y == DigitsToNat(SubSeq(x.s, 1, 4))
                  m == DigitsToNat(SubSeq(x.s, 6, 7))
                  d == DigitsToNat(SubSeq(x.s, 9, 10))
              IN  IF y >= 1 /\ m \in 1..12 /\ d \in 1..DaysInMonth(y, m)
                  THEN Date(y, m, d) ELSE NA
         ELSE NA

-----------------------------------------------------------------------------
(* Tables: a DataFrame is the set of its column names and the sequence of its  *)
(* rows; a row maps every column name of the model to a cell, NA under the     *)
(* columns the frame does not have                                             *)

RawListingCols ==
    {"id", "price", "latitude", "longitude", "number_of_reviews", "availability_365",
     "room_type", "bedrooms", "beds", "accommodates", "availability_30", "last_review",
     "host_is_superhost", "instant_bookable", "amenities"}

DerivedListingCols ==
    {"price_per_person", "est_booked_30", "est_monthly_revenue", "last_review_dt",
     "days_since_review", "is_superhost", "is_instant_bookable", "amenities_list",
     "amenity_count"}

\* columns of a raw listing the cleaner passes through and the analyzers read,
\* and the column add_segments_to_df adds
AnalysisCols ==
    {"host_id", "host_name", "neighbourhood_cleansed", "property_type",
     "review_scores_rating", "segment"}

RawCalendarCols == {"listing_id", "date", "price", "available"}
DerivedCalendarCols == {"month", "day_of_week", "is_weekend"}

AllCols ==
    RawListingCols \cup DerivedListingCols \cup AnalysisCols
        \cup RawCalendarCols \cup DerivedCalendarCols

BlankRow == [c \in AllCols |-> NA]

NoTable == [cols |-> {}, rows |-> <<>>]

\* the rows of s that satisfy Keep, in order (boolean indexing, dropna, drop_duplicates)
SelectRows(rows, keepIdx) ==
    LET idx == keepIdx \cap (1..Len(rows))
        Nth(k) == CHOOSE i \in idx : Cardinality({j \in idx : j < i}) = k - 1
    IN  [k \in 1..Cardinality(idx) |-> rows[Nth(k)]]

\* df[col] = f(row) for every row; the column is added when the frame lacks it
SetColumn(df, col, F(_)) ==
    [cols |-> df.cols \cup {col},
     rows |-> [i \in 1..Len(df.rows) |-> [df.rows[i] EXCEPT ![col] = F(df.rows[i])]]]

\* the outcome of a stage: the exception that escaped it ("none") and its frame
Frame(df) == [exc |-> "none", df |-> df]
Failed(e) == [exc |-> e, df |-> NoTable]

-----------------------------------------------------------------------------
(* Arithmetic on cells, as pandas does it on a numeric column: a missing operand *)
(* gives a missing result                                                        *)

Sign(n) == IF n < 0 THEN -1 ELSE IF n > 0 THEN 1 ELSE 0

NumSign(x) == IF x.t = "inf" THEN x.n ELSE Sign(x.n)

\* x - y for finite x, y
NumSub(x, y) ==
    IF IsFinite(x) /\ IsFinite(y) THEN Float(RatSub(RatOf(x), RatOf(y))) ELSE NA

\* x * y (inf * 0 is NaN)
NumMul(x, y) ==
    IF ~IsNumber(x) \/ ~IsNumber(y) THEN NA
    ELSE IF IsFinite(x) /\ IsFinite(y) THEN Float(RatMul(RatOf(x), RatOf(y)))
    ELSE IF NumSign(x) * NumSign(y) = 0 THEN NA
    ELSE Inf(NumSign(x) * NumSign(y))

\* x / y for a finite y (x / 0 is infinite, 0 / 0 is NaN)
NumDiv(x, y) ==
    IF ~IsNumber(x) \/ ~IsFinite(y) THEN NA
    ELSE IF y.n = 0 THEN (IF NumSign(x) = 0 THEN NA ELSE Inf(NumSign(x)))
    ELSE IF IsFinite(x) THEN Float(RatDiv(RatOf(x), RatOf(y)))
    ELSE Inf(NumSign(x) * NumSign(y))

\* the k-th smallest of a non-empty sequence of rationals
OrderStat(vals, k) ==
    CHOOSE v \in {vals[i] : i \in 1..Len(vals)} :
        /\ Cardinality({i \in 1..Len(vals) : RatLt(vals[i], v)}) < k
        /\ k <= Cardinality({i \in 1..Len(vals) : RatLe(vals[i], v)})

\* Series.median() of a non-empty sequence of rationals
Median(vals) ==
    LET n == Len(vals)
    IN  IF n % 2 = 1 THEN OrderStat(vals, (n + 1) \div 2)
        ELSE RatDiv(RatAdd(OrderStat(vals, n \div 2), OrderStat(vals, n \div 2 + 1)), Rat(2, 1))

-----------------------------------------------------------------------------
(* data_cleaner.py: the stages of the listings pipeline *)

\* remove_duplicates with keep="last"
\* per id the first row that has a price that parses and both coordinates, as if the
\* duplicates were removed after the critical-field drop
RemoveDuplicatesKeepUsable(df) ==
    IF "id" \notin df.cols THEN Failed("KeyError")
    ELSE LET Usable(r) == /\ ~IsNA(clean_price(r.price).v)
                          /\ ~IsNA(r.latitude) /\ ~IsNA(r.longitude)
             Keep(i) ==
                 IF Usable(df.rows[i])
                 THEN \A j \in 1..(i - 1) :
                          df.rows[j].id = df.rows[i].id => ~Usable(df.rows[j])
                 ELSE \A j \in 1..Len(df.rows) :
                          df.rows[j].id = df.rows[i].id => j >= i /\ ~Usable(df.rows[j])
         IN  Frame([df EXCEPT !.rows = SelectRows(df.rows, {i \in 1..Len(df.rows) : Keep(i)})])

RemoveDuplicatesKeepLast(df) ==
    IF "id" \notin df.cols THEN Failed("KeyError")
    ELSE Frame([df EXCEPT !.rows =
                   SelectRows(df.rows, {i \in 1..Len(df.rows) :
                                           \A j \in (i + 1)..Len(df.rows) :
                                               df.rows[j].id # df.rows[i].id})])

\* remove_duplicates(df): drop_duplicates(subset=["id"], keep="first")
remove_duplicates(df) ==
    IF "id" \notin df.cols THEN Failed("KeyError")
    ELSE Frame([df EXCEPT !.rows =
                   SelectRows(df.rows, {i \in 1..Len(df.rows) :
                                           \A j \in 1..(i - 1) : df.rows[j].id # df.rows[i].id})])

CleanPriceOfRow(r) == clean_price(r.price).v

\* df["price"] = df["price"].apply(clean_price)
NormalizePrice(df) ==
    IF "price" \notin df.cols THEN Failed("KeyError")
    ELSE Frame(SetColumn(df, "price", CleanPriceOfRow))

CriticalCols == {"id", "price", "latitude", "longitude"}

\* the values of col that are not missing, over the rows of the room type rt
GroupValues(rows, col, rt) ==
    LET idx == {i \in 1..Len(rows) : rows[i].room_type = rt /\ ~IsNA(rows[i][col])}
        kept == SelectRows(rows, idx)
    IN  [i \in 1..Len(kept) |-> RatOf(kept[i][col])]

\* the fill with the median of the whole column in place of the room type's
FillWithColumnMedian(df, col) ==
    LET all == SelectRows(df.rows, {i \in 1..Len(df.rows) : ~IsNA(df.rows[i][col])})
        vals == [i \in 1..Len(all) |-> RatOf(all[i][col])]
        Fill(r) ==
            IF ~IsNA(r[col]) THEN r[col]
            ELSE IF vals = <<>> THEN Float(Rat(1, 1)) ELSE Float(Median(vals))
    IN  SetColumn(df, col, Fill)

\* df[col] = df[col].fillna(df.groupby("room_type")[col].transform("median")).fillna(1)
FillWithGroupMedian(df, col) ==
    LET Fill(r) ==
            IF ~IsNA(r[col]) THEN r[col]
            ELSE IF IsNA(r.room_type) THEN Float(Rat(1, 1))
            ELSE LET vals == GroupValues(df.rows, col, r.room_type)
                 IN  IF vals = <<>> THEN Float(Rat(1, 1)) ELSE Float(Median(vals))
    IN  SetColumn(df, col, Fill)

\* handle_missing_values(df)
handle_missing_values(df) ==
    LET critical == CriticalCols \cap df.cols
        dropped == [df EXCEPT !.rows =
                       SelectRows(df.rows, {i \in 1..Len(df.rows) :
                                               \A c \in critical : ~IsNA(df.rows[i][c])})]
        fillable == {"bedrooms", "beds"} \cap df.cols
    IN  IF fillable # {} /\ "room_type" \notin df.cols THEN Failed("KeyError")
        ELSE LET d1 == IF "bedrooms" \in fillable
                       THEN FillWithGroupMedian(dropped, "bedrooms") ELSE dropped
                 d2 == IF "beds" \in fillable THEN FillWithGroupMedian(d1, "beds") ELSE d1
             IN  Frame(d2)

\* the price filter with | in place of &
InPriceBoundsEither(r, config) ==
    NumLe(IntC(config.price_min), r.price) \/ NumLe(r.price, IntC(config.price_max))

\* the price filter of filter_active_listings: price_min <= price <= price_max
InPriceBounds(r, config) ==
    NumLe(IntC(config.price_min), r.price) /\ NumLe(r.price, IntC(config.price_max))

\* the activity mask without the availability alternative
IsActiveReviewsOnly(r, cols, config) == NumLe(IntC(config.min_reviews), r.number_of_reviews)

\* the activity mask of filter_active_listings: has_reviews | has_availability
IsActive(r, cols, config) ==
    \/ NumLe(IntC(config.min_reviews), r.number_of_reviews)
    \/ "availability_365" \in cols /\ NumLt(IntC(0), r.availability_365)

\* filter_active_listings(df, config)
filter_active_listings(df, config) ==
    IF "price" \notin config.keys \/ "price" \notin df.cols THEN Failed("KeyError")
    ELSE LET priced == [df EXCEPT !.rows =
                           SelectRows(df.rows, {i \in 1..Len(df.rows) :
                                                   InPriceBounds(df.rows[i], config)})]
         IN  IF "min_reviews" \notin config.keys \/ "number_of_reviews" \notin df.cols
             THEN Failed("KeyError")
             ELSE Frame([priced EXCEPT !.rows =
                            SelectRows(priced.rows,
                                       {i \in 1..Len(priced.rows) :
                                           IsActive(priced.rows[i], priced.cols, config)})])

\* Series.map({"t": True, "f": False}) on one cell
\* the letters compared without regard to case
MapFlagAnyCase(x) ==
    IF x \in {Str(<<"t">>), Str(<<"T">>)} THEN BoolC(TRUE)
    ELSE IF x \in {Str(<<"f">>), Str(<<"F">>)} THEN BoolC(FALSE)
    ELSE NA

MapFlag(x) ==
    IF x = Str(<<"t">>) THEN BoolC(TRUE)
    ELSE IF x = Str(<<"f">>) THEN BoolC(FALSE)
    ELSE NA

\* add_calculated_fields(df), with pd.Timestamp.now().normalize() = now
add_calculated_fields(df, now) ==
    LET PerPerson(r) ==
            NumDiv(r.price,
                   IF IsFinite(r.accommodates) /\ r.accommodates.n = 0 THEN NA
                   ELSE r.accommodates)
        Booked(r) == NumSub(IntC(30), r.availability_30)
        Revenue(r) == NumMul(r.price, r.est_booked_30)
        ReviewDt(r) == ToDatetime(r.last_review)
        DaysSince(r) ==
            IF IsNA(r.last_review_dt) \/ IsNA(now) THEN NA
            ELSE Float(Rat(Ordinal(now) - Ordinal(r.last_review_dt), 1))
        Superhost(r) == MapFlag(r.host_is_superhost)
        Instant(r) == MapFlag(r.instant_bookable)
        d1 == IF "accommodates" \in df.cols THEN SetColumn(df, "price_per_person", PerPerson)
              ELSE df
        d2 == IF "availability_30" \in df.cols
              THEN SetColumn(SetColumn(d1, "est_booked_30", Booked),
                             "est_monthly_revenue", Revenue)
              ELSE d1
        d3 == IF "last_review" \in df.cols
              THEN SetColumn(SetColumn(d2, "last_review_dt", ReviewDt),
                             "days_since_review", DaysSince)
              ELSE d2
        d4 == IF "host_is_superhost" \in df.cols THEN SetColumn(d3, "is_superhost", Superhost)
              ELSE d3
        d5 == IF "instant_bookable" \in df.cols
              THEN SetColumn(d4, "is_instant_bookable", Instant)
              ELSE d4
    IN  Frame(d5)

\* step 6 of clean_listings: amenities_list and amenity_count
ExpandAmenities(df) ==
    LET AmenList(r) == parse_amenities(r.amenities).v
        AmenCount(r) == IntC(Len(r.amenities_list.l))
    IN  IF "amenities" \in df.cols
        THEN Frame(SetColumn(SetColumn(df, "amenities_list", AmenList),
                             "amenity_count", AmenCount))
        ELSE Frame(df)

-----------------------------------------------------------------------------
(* CompetitiveAnalyzer: price segments *)

Other == <<"O", "t", "h", "e", "r">>

RECURSIVE ScanSegments(_, _)
\* the loop of _assign_segment over the segments still to be scanned
ScanSegments(segments, price) ==
    IF segments = <<>> THEN Other
    ELSE IF NumLe(IntC(Head(segments).min), price) /\ NumLt(price, IntC(Head(segments).max))
         THEN Head(segments).label
         ELSE ScanSegments(Tail(segments), price)

RECURSIVE ScanSegmentsClosed(_, _)
\* the scan with the upper bound taken as inclusive
ScanSegmentsClosed(segments, price) ==
    IF segments = <<>> THEN Other
    ELSE IF NumLe(IntC(Head(segments).min), price) /\ NumLe(price, IntC(Head(segments).max))
         THEN Head(segments).label
         ELSE ScanSegmentsClosed(Tail(segments), price)

\* _assign_segment with min <= price <= max
AssignSegmentClosed(segments, price) == ScanSegmentsClosed(segments, price)

\* CompetitiveAnalyzer._assign_segment(price), self._segments = segments
_assign_segment(segments, price) == ScanSegments(segments, price)

-----------------------------------------------------------------------------
(* Values of the variables a specification does not use *)

NoCfg ==
    [keys |-> {}, price_min |-> 0, price_max |-> 0, min_reviews |-> 0, segments |-> <<>>,
     high_season_months |-> <<>>, low_season_months |-> <<>>, top_neighborhoods |-> 0]

TablesIdle ==
    /\ cfg = NoCfg /\ caller = NoTable /\ work = NoTable /\ dfref = "caller"
    /\ input = NoTable /\ pass = 1 /\ first = NoTable /\ today = NA

FnIdle == fn_in = NA /\ fn_out = NoOutcome /\ fn_first = NoOutcome

NoOp == [name |-> "none", arg |-> NA]
NoResult == [exc |-> "none", kind |-> "none"]

\* geo_df=None, the default of NeighborhoodAnalyzer.__init__
None == [present |-> FALSE, cols |-> <<>>, rows |-> <<>>]

AnalyzersIdle == calendar = NoTable /\ geo = None /\ op = NoOp /\ result = NoResult

tableVars == <<cfg, caller, work, dfref, input, pass, first, today>>
fnVars == <<fn_in, fn_out, fn_first>>
anVars == <<calendar, geo, op, result>>

-----------------------------------------------------------------------------
(* data_cleaner.py: clean_calendar *)

\* the weekend taken as Saturday and Sunday
IsWeekendSatSun(dow) == dow \in {5, 6}

\* Series.isin([4, 5]) on the day of week: Friday and Saturday
IsWeekendDay(dow) == dow \in {4, 5}

\* lines 216-229 of clean_calendar: the columns assigned on the copy (to_datetime
\* leaves a Timestamp as it is, so the test of the column's dtype changes nothing)
NormalizeCalendar(df) ==
    LET ParsedDate(r) == ToDatetime(r.date)
        Price(r) == clean_price(r.price).v
        Available(r) == MapFlag(r.available)
        Month(r) == IF IsNA(r.date) THEN NA ELSE IntC(MonthOf(r.date))
        Dow(r) == IF IsNA(r.date) THEN NA ELSE IntC(DayOfWeek(r.date))
        Weekend(r) == BoolC(~IsNA(r.day_of_week) /\ IsWeekendDay(r.day_of_week.n))
    IN  IF {"date", "price", "available"} \subseteq df.cols
        THEN Frame(SetColumn(SetColumn(SetColumn(SetColumn(SetColumn(SetColumn(
                 df, "date", ParsedDate), "price", Price), "available", Available),
                 "month", Month), "day_of_week", Dow), "is_weekend", Weekend))
        ELSE Failed("KeyError")

\* df = df.dropna(subset=["date"])
DropMissingDates(df) ==
    Frame([df EXCEPT !.rows =
              SelectRows(df.rows, {i \in 1..Len(df.rows) : ~IsNA(df.rows[i].date)})])

-----------------------------------------------------------------------------
(* Frames as objects: the caller's frame and the frame the pipeline holds *)

\* the frame the local name df is bound to
DF == IF dfref = "caller" THEN caller ELSE work

\* df.copy(): a new object (the mutant AliasOf returns the object itself)
AliasOf(ref) == ref
CopyOf(ref) == "work"

\* df = <a frame newly built by pandas>
BindNew(tbl) == work' = tbl /\ dfref' = "work" /\ UNCHANGED caller

\* df[...] = ...: the object df is bound to changes in place
Mutate(tbl) ==
    IF dfref = "caller" THEN caller' = tbl /\ UNCHANGED <<work, dfref>>
    ELSE work' = tbl /\ UNCHANGED <<caller, dfref>>

\* df = df.copy()
BindCopy ==
    IF CopyOf(dfref) = dfref THEN UNCHANGED <<caller, work, dfref>> ELSE BindNew(DF)

-----------------------------------------------------------------------------
(* clean_listings, one action per stage *)

TextAbc == <<"a", "b", "c">>
Text50 == <<"$", "5", "0">>
Text1000 == <<"$", "1", ",", "0", "0", "0">>
TextT == <<"t">>
TextF == <<"f">>
TextEntire == <<"E">>
TextAmen == <<"[", "\"", "a", "\"", ",", "\"", " ", "\"", "]">>
TextReviewDay == <<"2", "0", "2", "4", "-", "0", "3", "-", "0", "1">>

\* a listing that passes every filter
BaseListing ==
    [BlankRow EXCEPT
        !.id = IntC(1), !.price = Str(Text50),
        !.latitude = Float(Rat(3025, 100)), !.longitude = Float(Rat(-9775, 100)),
        !.number_of_reviews = IntC(3), !.availability_365 = IntC(9),
        !.room_type = Str(TextEntire), !.bedrooms = IntC(2), !.beds = NA,
        !.accommodates = IntC(2), !.availability_30 = IntC(10),
        !.last_review = Str(TextReviewDay),
        !.host_is_superhost = Str(TextT), !.instant_bookable = Str(TextF),
        !.amenities = Str(TextAmen)]

\* rows that differ in id and price
IdPriceRows ==
    {[BaseListing EXCEPT !.id = i, !.price = p] :
        i \in {NA, IntC(1), IntC(2)},
        p \in {NA, Str(TextAbc), Str(Text50), Str(Text1000)}}

\* rows that lack a coordinate
GeoRows ==
    {[BaseListing EXCEPT !.id = IntC(2), !.latitude = NA],
     [BaseListing EXCEPT !.id = IntC(2), !.longitude = NA]}

\* rows that differ in review count and availability
ActivityRows ==
    {[BaseListing EXCEPT !.id = IntC(2), !.number_of_reviews = n, !.availability_365 = a] :
        n \in {NA, IntC(0), IntC(3)}, a \in {NA, IntC(0), IntC(9)}}

\* rows that differ in room type and bedrooms
BedroomRows ==
    {[BaseListing EXCEPT !.id = IntC(2), !.room_type = rt, !.bedrooms = b] :
        rt \in {Str(TextEntire)}, b \in {NA, IntC(5)}}

ListingRows == IdPriceRows \cup GeoRows \cup ActivityRows \cup BedroomRows

RawListingTables ==
    {[cols |-> RawListingCols, rows |-> rows] : rows \in SeqsUpTo(ListingRows, MaxRows)}

ListingConfigs ==
    {[NoCfg EXCEPT !.keys = {"price", "min_reviews"},
                   !.price_min = b[1], !.price_max = b[2], !.min_reviews = b[3]] :
        b \in {<<50, 1000, 3>>, <<51, 999, 1>>, <<50, 50, 0>>}}

InitListings ==
    /\ pc = "start"
    /\ cfg \in ListingConfigs
    /\ caller \in RawListingTables
    /\ input = caller
    /\ work = NoTable
    /\ dfref = "caller"
    /\ pass = 1
    /\ first = NoTable
    /\ today = Date(2024, 3, 10)
    /\ FnIdle
    /\ AnalyzersIdle

\* a stage that rebinds df to the frame it returns
StageNew(from, to, out) ==
    /\ pc = from
    /\ IF out.exc # "none"
       THEN pc' = "raised" /\ UNCHANGED <<caller, work, dfref>>
       ELSE pc' = to /\ BindNew(out.df)
    /\ UNCHANGED <<cfg, input, pass, first, today, fnVars, anVars>>

\* a stage that assigns columns of the frame df is bound to
StageInPlace(from, to, out) ==
    /\ pc = from
    /\ IF out.exc # "none"
       THEN pc' = "raised" /\ UNCHANGED <<caller, work, dfref>>
       ELSE pc' = to /\ Mutate(out.df)
    /\ UNCHANGED <<cfg, input, pass, first, today, fnVars, anVars>>

\* config = load_config(config_path); df = df.copy()
CopyListings ==
    /\ pc = "start"
    /\ BindCopy
    /\ pc' = "dedup"
    /\ UNCHANGED <<cfg, input, pass, first, today, fnVars, anVars>>

\* 1. df = remove_duplicates(df)
RemoveDuplicates == StageNew("dedup", "price", remove_duplicates(DF))

\* 2. df["price"] = df["price"].apply(clean_price)
NormalizePrices == StageInPlace("price", "missing", NormalizePrice(DF))

\* 3. df = handle_missing_values(df)
HandleMissingValues == StageNew("missing", "filter", handle_missing_values(DF))

\* 4. df = filter_active_listings(df, config)
FilterActiveListings == StageNew("filter", "derive", filter_active_listings(DF, cfg))

\* 5. df = add_calculated_fields(df)
AddCalculatedFields == StageInPlace("derive", "amenities", add_calculated_fields(DF, today))

\* 6. the amenities columns; return df
ParseAmenitiesColumn ==
    /\ pc = "amenities"
    /\ LET out == ExpandAmenities(DF)
       IN  /\ Mutate(out.df)
           /\ first' = IF pass = 1 THEN out.df ELSE first
    /\ pc' = "done"
    /\ UNCHANGED <<cfg, input, pass, today, fnVars, anVars>>

\* the caller passes the table clean_listings returned to clean_listings again
Refeed ==
    /\ pc = "done"
    /\ pass = 1
    /\ caller' = DF
    /\ input' = DF
    /\ work' = NoTable
    /\ dfref' = "caller"
    /\ pass' = 2
    /\ pc' = "start"
    /\ UNCHANGED <<cfg, first, today, fnVars, anVars>>

NextListings ==
    \/ CopyListings
    \/ RemoveDuplicates
    \/ NormalizePrices
    \/ HandleMissingValues
    \/ FilterActiveListings
    \/ AddCalculatedFields
    \/ ParseAmenitiesColumn
    \/ Refeed

-----------------------------------------------------------------------------
(* clean_calendar, one action per step *)

TextFri == <<"2", "0", "2", "4", "-", "0", "3", "-", "0", "1">>
TextSat == <<"2", "0", "2", "4", "-", "0", "3", "-", "0", "2">>
TextSun == <<"2", "0", "2", "4", "-", "0", "3", "-", "0", "3">>
TextMon == <<"2", "0", "2", "4", "-", "0", "3", "-", "0", "4">>
TextLeapDay == <<"2", "0", "2", "4", "-", "0", "2", "-", "2", "9">>
TextNewYearsEve == <<"2", "0", "2", "3", "-", "1", "2", "-", "3", "1">>
TextFeb30 == <<"2", "0", "2", "4", "-", "0", "2", "-", "3", "0">>
TextNoDate == <<"n", "/", "a">>

\* the date texts that name a day of the calendar
DayTexts == {TextFri, TextSat, TextSun, TextMon, TextLeapDay, TextNewYearsEve}

BaseCalendarRow ==
    [BlankRow EXCEPT !.listing_id = IntC(1), !.date = Str(TextFri),
                     !.price = Str(Text50), !.available = Str(TextT)]

CalendarRows ==
    {[BaseCalendarRow EXCEPT !.date = d] :
        d \in {NA, Str(TextNoDate), Str(TextFeb30), Date(2024, 3, 2)}
                \cup {Str(s) : s \in DayTexts}}
      \cup {[BaseCalendarRow EXCEPT !.price = NA],
            [BaseCalendarRow EXCEPT !.available = Str(TextF)],
            [BaseCalendarRow EXCEPT !.available = NA]}

RawCalendarTables ==
    {[cols |-> RawCalendarCols, rows |-> rows] : rows \in SeqsUpTo(CalendarRows, MaxCalRows)}

InitCalendar ==
    /\ pc = "cal_start"
    /\ cfg \in ListingConfigs
    /\ caller \in RawCalendarTables
    /\ input = caller
    /\ work = NoTable
    /\ dfref = "caller"
    /\ pass = 1
    /\ first = NoTable
    /\ today = Date(2024, 3, 10)
    /\ FnIdle
    /\ AnalyzersIdle

\* df = df.copy()
CopyCalendar ==
    /\ pc = "cal_start"
    /\ BindCopy
    /\ pc' = "cal_columns"
    /\ UNCHANGED <<cfg, input, pass, first, today, fnVars, anVars>>

\* the date, price, available, month, day_of_week and is_weekend columns
AssignCalendarColumns == StageInPlace("cal_columns", "cal_dropna", NormalizeCalendar(DF))

\* df = df.dropna(subset=["date"]); return df
DropCalendarRows == StageNew("cal_dropna", "cal_done", DropMissingDates(DF))

NextCalendar == CopyCalendar \/ AssignCalendarColumns \/ DropCalendarRows

-----------------------------------------------------------------------------
(* Both cleaners, from every raw table of the bounds *)

InitClean == InitListings \/ InitCalendar

NextClean == NextListings \/ NextCalendar

SpecClean == InitClean /\ [][NextClean]_vars

-----------------------------------------------------------------------------
(* clean_price as a function of one scalar *)

PriceChars == {"$", ",", "0", "1", ".", "-", " ", "i", "n", "f", "a"}

PriceTexts ==
    SeqsUpTo(PriceChars, MaxPriceLen)
      \cup { <<"$", "1", ",", "2", "3", "4", ".", "5", "6">>,
             <<"i", "n", "v", "a", "l", "i", "d">>,
             <<"I", "n", "f", "i", "n", "i", "t", "y">>,
             <<" ", "$", "1", ",", "0", "0", "0", " ">>,
             <<"$", "5", "0", ".", "0", "0">>,
             <<"+", ".", "5">> }

PriceNumbers ==
    {IntC(n) : n \in {-3, 0, 5, 1234}}
      \cup {Float(Rat(n, d)) : n \in {-1, 0, 5, 123456}, d \in {1, 2, 100}}
      \cup {Inf(1), Inf(-1)}

PriceInputs == {NA} \cup {Str(s) : s \in PriceTexts} \cup PriceNumbers \cup {BoolC(TRUE), BoolC(FALSE)}

InitPrice ==
    /\ pc = "start"
    /\ fn_in \in PriceInputs
    /\ fn_out = NoOutcome
    /\ fn_first = NoOutcome
    /\ TablesIdle
    /\ AnalyzersIdle

\* clean_price(x)
CallCleanPrice ==
    /\ pc = "start"
    /\ fn_out' = clean_price(fn_in)
    /\ fn_first' = fn_out'
    /\ pc' = "once"
    /\ UNCHANGED <<fn_in, tableVars, anVars>>

\* clean_price(clean_price(x)): the value returned is passed in again
CallCleanPriceAgain ==
    /\ pc = "once"
    /\ fn_out.exc = "none"
    /\ fn_in' = fn_out.v
    /\ fn_out' = clean_price(fn_out.v)
    /\ pc' = "twice"
    /\ UNCHANGED <<fn_first, tableVars, anVars>>

NextPrice == CallCleanPrice \/ CallCleanPriceAgain

SpecPrice == InitPrice /\ [][NextPrice]_vars

-----------------------------------------------------------------------------
(* C4 *)

\* the text left after removing "$" and "," and trimming
PriceText(x) == Strip(RemoveChar(RemoveChar(x.s, "$"), ","))

\* s is a decimal number: an optional sign, then digits with at most one decimal point
\* and at least one digit
IsDecimalText(s) ==
    LET body == IF s # <<>> /\ Head(s) \in {"+", "-"} THEN Tail(s) ELSE s
        nodot == RemoveChar(body, ".")
    IN  /\ nodot # <<>>
        /\ AllDigits(nodot)
        /\ Len(body) - Len(nodot) <= 1

CleanPriceRan == pc \in {"once", "twice"}

C4_NeverRaises == CleanPriceRan => fn_out.exc = "none"
C4_MissingToMissing == CleanPriceRan /\ IsNA(fn_in) => IsNA(fn_out.v)
C4_NonDecimalToMissing ==
    CleanPriceRan /\ fn_in.t = "str" /\ ~IsDecimalText(PriceText(fn_in)) => IsNA(fn_out.v)
C4_DecimalToValue ==
    /\ CleanPriceRan /\ fn_in.t = "str" /\ IsDecimalText(PriceText(fn_in)) => IsFinite(fn_out.v)
    /\ CleanPriceRan /\ fn_in = Str(<<"$", "1", ",", "2", "3", "4", ".", "5", "6">>)
         => fn_out.v = Float(Rat(123456, 100))
C4_NumericUnchanged == CleanPriceRan /\ IsNumber(fn_in) => NumEq(fn_out.v, fn_in)
C4_Idempotent == pc = "twice" => fn_out = fn_first

\* C4: clean_price never raises; missing gives missing; a non-missing text that is not a
\* decimal number after removing "$" and "," gives missing; a well-formed currency
\* text gives its value; a number is returned with the same value; applying it twice
\* gives what applying it once gives.
C4_CleanPriceContract ==
    /\ C4_NeverRaises
    /\ C4_MissingToMissing
    /\ C4_NonDecimalToMissing
    /\ C4_DecimalToValue
    /\ C4_NumericUnchanged
    /\ C4_Idempotent

-----------------------------------------------------------------------------
(* parse_amenities as a function of one scalar *)

AmenChars == {"[", "]", ",", "\"", "a", " ", "0"}

AmenTexts ==
    SeqsUpTo(AmenChars, MaxAmenLen)
      \cup { <<"[", "\"", "W", "i", "f", "i", "\"", ",", "\"", "K", "\"", "]">>,
             <<"n", "o", "t", " ", "j", "s", "o", "n">>,
             <<"[", "\"", "a", "\"", ",", "\"", "b", "\"", ",", "\"", "a", "\"", "]">>,
             <<"[", "\"", "b", "\"", ",", " ", "0", ",", "\"", " ", "a", " ", "\"", "]">>,
             <<"[", "n", "u", "l", "l", ",", "t", "r", "u", "e", ",", "f", "a", "l", "s", "e", "]">>,
             <<"[", "[", "\"", "a", "\"", ",", "1", "0", "]", ",", "\"", "\"", "]">>,
             <<"\"", "W", "i", "f", "i", "\"">>,
             <<"n", "u", "l", "l">> }

AmenInputs ==
    {NA} \cup {Str(s) : s \in AmenTexts}
      \cup {IntC(0), IntC(7), Float(Rat(1, 2)), Inf(1), BoolC(TRUE), BoolC(FALSE)}

InitAmen ==
    /\ pc = "start"
    /\ fn_in \in AmenInputs
    /\ fn_out = NoOutcome
    /\ fn_first = NoOutcome
    /\ TablesIdle
    /\ AnalyzersIdle

\* parse_amenities(x)
CallParseAmenities ==
    /\ pc = "start"
    /\ fn_out' = parse_amenities(fn_in)
    /\ pc' = "parsed"
    /\ UNCHANGED <<fn_in, fn_first, tableVars, anVars>>

NextAmen == CallParseAmenities

SpecAmen == InitAmen /\ [][NextAmen]_vars

-----------------------------------------------------------------------------
(* C5, C6 *)

AmenRan == pc = "parsed"

\* the positions of the source array whose element is kept (bool(a) is true)
KeptPositions(items) == {i \in 1..Len(items) : Truthy(items[i])}

\* the j-th smallest member of a set of positions
NthPosition(P, j) == CHOOSE i \in P : Cardinality({m \in P : m < i}) = j - 1

C6_NamesTrimmedNonEmpty ==
    AmenRan => \A m \in 1..Len(fn_out.v.l) :
                   fn_out.v.l[m] # <<>> /\ Strip(fn_out.v.l[m]) = fn_out.v.l[m]

-----------------------------------------------------------------------------
(* _assign_segment as a function of the configured segments and one price *)

\* most segments of a configuration, and the largest segment bound enumerated
MaxSegs == 2
MaxSegBound == 3

SegLabels == << <<"B", "u", "d", "g", "e", "t">>,
                <<"M", "i", "d", "-", "R", "a", "n", "g", "e">>,
                <<"P", "r", "e", "m", "i", "u", "m">>,
                <<"L", "u", "x", "u", "r", "y">>,
                <<"U", "l", "t", "r", "a">> >>

\* every ordered configuration of up to MaxSegs segments with bounds in 0..MaxSegBound,
\* intervals that overlap, leave gaps, are empty or are out of order included
SegConfigs ==
    UNION { { [i \in 1..k |-> [min |-> b[i][1], max |-> b[i][2], label |-> SegLabels[i]]] :
                b \in [1..k -> (0..MaxSegBound) \X (0..MaxSegBound)] } : k \in 0..MaxSegs }

SegPrices ==
    {NA, Inf(1), Inf(-1)}
      \cup {Float(Rat(n, 2)) : n \in -1..(2 * MaxSegBound + 1)}

InitSeg ==
    /\ pc = "start"
    /\ cfg \in {[NoCfg EXCEPT !.segments = s] : s \in SegConfigs}
    /\ fn_in \in SegPrices
    /\ fn_out = NoOutcome
    /\ fn_first = NoOutcome
    /\ caller = NoTable /\ work = NoTable /\ dfref = "caller"
    /\ input = NoTable /\ pass = 1 /\ first = NoTable /\ today = NA
    /\ AnalyzersIdle

\* self._assign_segment(price)
CallAssignSegment ==
    /\ pc = "start"
    /\ fn_out' = Returned(Str(_assign_segment(cfg.segments, fn_in)))
    /\ pc' = "assigned"
    /\ UNCHANGED <<fn_in, fn_first, tableVars, anVars>>

NextSeg == CallAssignSegment

SpecSeg == InitSeg /\ [][NextSeg]_vars

-----------------------------------------------------------------------------
(* C10 *)

SegRan == pc = "assigned"

\* the segments whose half-open interval [min, max) contains the price
Containing(segments, price) ==
    {i \in 1..Len(segments) :
        NumLe(IntC(segments[i].min), price) /\ NumLt(price, IntC(segments[i].max))}

\* exactly one label: that of the first segment containing the price, else "Other"
C10_FirstMatchOrOther ==
    SegRan =>
        LET M == Containing(cfg.segments, fn_in)
        IN  /\ fn_out.exc = "none"
            /\ fn_out.v.s = IF M = {} THEN Other
                            ELSE cfg.segments[CHOOSE i \in M : \A m \in M : i <= m].label

\* the tiers are non-empty, ascending and do not overlap (the configuration the
\* program assumes)
Ascending(segments) ==
    /\ \A i \in 1..Len(segments) : segments[i].min < segments[i].max
    /\ \A i \in 1..(Len(segments) - 1) : segments[i].max <= segments[i + 1].min

\* the tiers are non-empty, ascending and contiguous
Contiguous(segments) ==
    /\ \A i \in 1..Len(segments) : segments[i].min < segments[i].max
    /\ \A i \in 1..(Len(segments) - 1) : segments[i].max = segments[i + 1].min

\* C10 as stated: assignment is total and half-open, the label is that of the first
\* configured segment with min <= price < max or "Other"; a price equal to a tier's max
\* is never assigned to that tier and falls into the next tier (read here for
\* non-empty, ascending, non-overlapping tiers only).
C10_AsStated ==
    /\ C10_FirstMatchOrOther
    /\ SegRan /\ Ascending(cfg.segments) =>
          \A i \in 1..Len(cfg.segments) :
              NumEq(fn_in, IntC(cfg.segments[i].max)) =>
                  /\ fn_out.v.s # cfg.segments[i].label
                  /\ i < Len(cfg.segments)
                  /\ fn_out.v.s = cfg.segments[i + 1].label

\* C10 amended: the label is that of the first configured segment with
\* min <= price < max or "Other"; a price equal to a tier's max is never assigned to
\* that tier; with non-empty, ascending, contiguous tiers it falls into the next tier
\* when there is one and is "Other" when the tier is the last.
C10_HalfOpenSegments ==
    /\ C10_FirstMatchOrOther
    /\ SegRan =>
          \A i \in 1..Len(cfg.segments) :
              NumEq(fn_in, IntC(cfg.segments[i].max)) =>
                  /\ fn_out.v.s # cfg.segments[i].label
                  /\ Contiguous(cfg.segments) =>
                        fn_out.v.s = IF i < Len(cfg.segments)
                                     THEN cfg.segments[i + 1].label
                                     ELSE Other

\* tiers [0,1) and [1,2): the price 1 is given the second tier's label
C10_Witness ==
    /\ SegRan
    /\ Len(cfg.segments) = 2
    /\ Contiguous(cfg.segments)
    /\ NumEq(fn_in, IntC(cfg.segments[1].max))
    /\ fn_out.v.s = SegLabels[2]

-----------------------------------------------------------------------------
(* C1, C2, C3, C7, C8: clean_listings *)

\* clean_listings has returned; DF is the table it returned
ListingsDone == pc = "done"

Present(x) == x.t # "na"

\* x is a finite number with lo <= x <= hi
Within(x, lo, hi) == x.t \in {"float", "int"} /\ lo * x.d <= x.n /\ x.n <= hi * x.d

\* C1: every row of the table returned by clean_listings has a non-missing id, price,
\* latitude and longitude, and price_min <= price <= price_max.
C1_CleanedRowsComplete ==
    ListingsDone =>
        \A i \in 1..Len(DF.rows) :
            LET r == DF.rows[i]
            IN  /\ Present(r.id) /\ Present(r.price)
                /\ Present(r.latitude) /\ Present(r.longitude)
                /\ Within(r.price, cfg.price_min, cfg.price_max)

\* bounds 50..1000: a row priced at the upper bound and a row priced at the lower
\* bound are both returned, after rows with a missing field were dropped
C1_Witness ==
    /\ ListingsDone /\ pass = 1
    /\ cfg.price_min = 50 /\ cfg.price_max = 1000
    /\ Len(input.rows) = 2 /\ Len(DF.rows) = 2
    /\ DF.rows[1].price = Float(Rat(1000, 1))
    /\ DF.rows[2].price = Float(Rat(50, 1))

\* number_of_reviews >= min_reviews OR availability_365 > 0
ActiveCriterion(r) ==
    \/ r.number_of_reviews.t \in {"float", "int"}
         /\ r.number_of_reviews.n >= cfg.min_reviews * r.number_of_reviews.d
    \/ r.availability_365.t \in {"float", "int"} /\ r.availability_365.n > 0

C2_OutputActive ==
    ListingsDone => \A i \in 1..Len(DF.rows) : ActiveCriterion(DF.rows[i])

C2_FilterStep ==
    pc = "filter" /\ pc' = "derive" =>
        \A i \in 1..Len(DF.rows) :
            (Within(DF.rows[i].price, cfg.price_min, cfg.price_max)
               /\ ActiveCriterion(DF.rows[i]))
              => \E j \in 1..Len(DF'.rows) : DF'.rows[j] = DF.rows[i]

\* C2: every row returned by clean_listings has number_of_reviews >= min_reviews or
\* availability_365 > 0 (so a row that fails both, missing values included, is never
\* returned), and the filter stage removes no row that is within the price bounds and
\* satisfies either one.
C2_ActiveCriterion == []C2_OutputActive /\ [][C2_FilterStep]_vars

\* min_reviews = 3: a listing with no reviews and positive availability is returned,
\* and a listing with missing reviews and missing availability was removed
C2_Witness ==
    /\ ListingsDone /\ pass = 1
    /\ cfg.min_reviews = 3
    /\ Len(input.rows) = 2 /\ Len(DF.rows) = 1
    /\ DF.rows[1].number_of_reviews = IntC(0)
    /\ DF.rows[1].availability_365 = IntC(9)
    /\ \E i \in 1..2 : /\ input.rows[i].number_of_reviews = NA
                       /\ input.rows[i].availability_365 = NA
                       /\ input.rows[i].price = Str(Text50)

\* the first row of the raw table with the id x
FirstWithId(x) ==
    input.rows[CHOOSE i \in 1..Len(input.rows) :
                   input.rows[i].id = x /\ \A j \in 1..(i - 1) : input.rows[j].id # x]

\* the columns that clean_listings copies unchanged from the raw row
CopiedListingCols == RawListingCols \ {"price", "bedrooms", "beds"}

\* C3: no two rows of the table returned by clean_listings share an id, and each
\* returned row is the first row of the raw table with that id.
C3_UniqueFirstOccurrence ==
    ListingsDone =>
        /\ \A i, j \in 1..Len(DF.rows) : DF.rows[i].id = DF.rows[j].id => i = j
        /\ \A i \in 1..Len(DF.rows) :
               LET r == DF.rows[i]
                   raw == FirstWithId(r.id)
               IN  /\ \A c \in CopiedListingCols : r[c] = raw[c]
                   /\ r.price = clean_price(raw.price).v
                   /\ Present(raw.bedrooms) => r.bedrooms = raw.bedrooms

\* two raw rows with the same id that differ in another column: one row is returned
C3_Witness ==
    /\ ListingsDone /\ pass = 1
    /\ Len(input.rows) = 2 /\ Len(DF.rows) = 1
    /\ input.rows[1].id = input.rows[2].id
    /\ input.rows[1] # input.rows[2]
    /\ DF.rows[1].availability_365 = input.rows[1].availability_365
    /\ DF.rows[1].availability_365 # input.rows[2].availability_365

\* C7: clean_listings and clean_calendar leave the caller's table as it was when the
\* call started: same columns, same rows, same cells.
C7_CallerTableUnchanged == caller = input

\* a cleaner has returned a table with other columns and fewer rows than the caller's,
\* which still holds the raw price text
C7_Witness ==
    /\ pc \in {"done", "cal_done"}
    /\ dfref = "work"
    /\ Len(caller.rows) = 2 /\ Len(work.rows) = 1
    /\ work.cols # caller.cols
    /\ caller.rows[1].price = Str(Text50)
    /\ work.rows[1].price = Float(Rat(50, 1))

\* C8: feeding the table returned by clean_listings to clean_listings again returns
\* the same table (same rows in the same order, same cells, derived columns
\* included), and no stage of the second run removes a row.
C8_Idempotent ==
    pass = 2 =>
        /\ Len(DF.rows) = Len(first.rows)
        /\ pc = "done" => DF = first

\* the second run has returned two rows, one of them with an imputed bedrooms value
C8_Witness ==
    /\ pass = 2 /\ pc = "done"
    /\ Len(DF.rows) = 2
    /\ DF.rows[1].price = Float(Rat(1000, 1))
    /\ DF.rows[2].bedrooms = Float(Rat(2, 1))
    /\ DF.rows[2].beds = Float(Rat(1, 1))

-----------------------------------------------------------------------------
(* C9: clean_calendar *)

CalendarDone == pc = "cal_done"

\* the weekday of the days of the bounds, Monday = 0 ... Sunday = 6
KnownWeekday(x) ==
    CASE x = Date(2024, 3, 1) -> 4
      [] x = Date(2024, 3, 2) -> 5
      [] x = Date(2024, 3, 3) -> 6
      [] x = Date(2024, 3, 4) -> 0
      [] x = Date(2024, 2, 29) -> 3
      [] x = Date(2023, 12, 31) -> 6

\* the raw date cells that name a day
HasDay(x) == x.t = "date" \/ (x.t = "str" /\ x.s \in DayTexts)

\* C9: every row returned by clean_calendar has a date, month in 1..12 equal to the
\* date's month, day_of_week in 0..6 with Monday = 0 and Sunday = 6, and is_weekend
\* true exactly on day_of_week 4 and 5; the rows returned are the raw rows whose date
\* can be parsed, in order.
C9_CalendarRows ==
    CalendarDone =>
        LET kept == SelectRows(input.rows,
                               {i \in 1..Len(input.rows) : HasDay(input.rows[i].date)})
        IN  /\ Len(DF.rows) = Len(kept)
            /\ \A i \in 1..Len(DF.rows) :
                   LET r == DF.rows[i]
                   IN  /\ r.date.t = "date"
                       /\ r.listing_id = kept[i].listing_id
                       /\ kept[i].date.t = "date" => r.date = kept[i].date
                       /\ r.month.t = "int" /\ r.month.n \in 1..12
                       /\ r.month.n = (r.date.n \div 100) % 100
                       /\ r.day_of_week.t = "int" /\ r.day_of_week.n \in 0..6
                       /\ r.day_of_week.n = KnownWeekday(r.date)
                       /\ r.is_weekend = BoolC(r.day_of_week.n \in {4, 5})

\* a Friday row is a weekend row, a Sunday row is not, and a row without a date was
\* dropped
C9_Witness ==
    /\ CalendarDone
    /\ Len(input.rows) = 2 /\ Len(DF.rows) = 1
    /\ \E i \in 1..2 : input.rows[i].date = Str(TextFeb30)
    /\ DF.rows[1].date = Date(2023, 12, 31)
    /\ DF.rows[1].month = IntC(12)
    /\ DF.rows[1].day_of_week = IntC(6)
    /\ DF.rows[1].is_weekend = BoolC(FALSE)

-----------------------------------------------------------------------------
(* Aggregation as pandas does it: missing values are skipped by count, mean, *)
(* median, value_counts, nunique and as group keys                            *)

\* acc + vals[k] + ... + vals[Len(vals)]; each partial sum is bound as a value
\* before the next term is added
RECURSIVE SumFrom(_, _, _)
SumFrom(vals, k, acc) ==
    IF k > Len(vals) THEN acc
    ELSE CHOOSE total \in {SumFrom(vals, k + 1, next) : next \in {RatAdd(acc, vals[k])}} : TRUE

RatSum(vals) == SumFrom(vals, 1, Rat(0, 1))

\* F applied to the value of x, computed once
Bind(x, F(_)) == CHOOSE out \in {F(v) : v \in {x}} : TRUE

\* the cells of column col over rows, in row order
Column(rows, col) == [i \in 1..Len(rows) |-> rows[i][col]]

\* the finite numbers (bools count as 0/1) among cells, in order, as rationals
Numbers(cells) ==
    LET kept == SelectRows(cells, {i \in 1..Len(cells) : cells[i].t \in {"int", "float", "bool"}})
    IN  [i \in 1..Len(kept) |-> RatOf(kept[i])]

\* the signs of the infinite values among cells
InfiniteSigns(cells) == {cells[i].n : i \in {j \in 1..Len(cells) : cells[j].t = "inf"}}

\* Series.count(): the number of values that are not missing
Count(cells) == Cardinality({i \in 1..Len(cells) : ~IsNA(cells[i])})

\* Series.sum() of a numeric column: 0 for an empty one
SumCell(cells) ==
    LET infs == InfiniteSigns(cells)
    IN  IF infs = {} THEN Float(RatSum(Numbers(cells)))
        ELSE IF infs = {1, -1} THEN NA
        ELSE Inf(CHOOSE s \in infs : TRUE)

\* Series.mean(): missing (NaN) when no value is left
MeanCell(cells) ==
    LET vals == Numbers(cells)
        infs == InfiniteSigns(cells)
    IN  IF infs = {1, -1} THEN NA
        ELSE IF infs # {} THEN Inf(CHOOSE s \in infs : TRUE)
        ELSE IF vals = <<>> THEN NA
        ELSE Float(RatDiv(RatSum(vals), Rat(Len(vals), 1)))

\* Series.median() over the finite values: missing (NaN) when no value is left
MedianCell(cells) ==
    LET vals == Numbers(cells)
    IN  IF vals = <<>> THEN NA ELSE Float(Median(vals))

\* the distinct values of cells that are not missing, in order of first appearance
Uniques(cells) ==
    LET firsts == {i \in 1..Len(cells) :
                      ~IsNA(cells[i]) /\ \A j \in 1..(i - 1) : cells[j] # cells[i]}
    IN  SelectRows(cells, firsts)

\* Series.nunique()
NUnique(cells) == Len(Uniques(cells))

\* the rows whose column col holds key
RowsWhere(rows, col, key) == SelectRows(rows, {i \in 1..Len(rows) : rows[i][col] = key})

\* a stable sort of <<key, item>> pairs by key (a rational), ascending
SortPairs(pairs) ==
    LET n == Len(pairs)
        \* the place of the i-th pair: after the pairs of smaller key and after
        \* the earlier pairs of the same key
        Place(i) ==
            1 + Cardinality({j \in 1..n : RatLt(pairs[j][1], pairs[i][1])})
              + Cardinality({j \in 1..(i - 1) : pairs[j][1] = pairs[i][1]})
    IN  [k \in 1..n |-> pairs[CHOOSE i \in 1..n : Place(i) = k]]

Items(pairs) == [i \in 1..Len(pairs) |-> pairs[i][2]]

\* the first n elements of a sequence: head(n), [:n]
Take(seq, n) == SubSeq(seq, 1, IF n < Len(seq) THEN n ELSE Len(seq))

\* Series.value_counts(): one [key, count] per distinct value that is not missing,
\* largest count first, equal counts in order of first appearance
ValueCounts(cells) ==
    LET keys == Uniques(cells)
        CountOf(k) == Cardinality({i \in 1..Len(cells) : cells[i] = k})
    IN  Items(SortPairs([i \in 1..Len(keys) |->
                            <<Rat(-CountOf(keys[i]), 1),
                              [key |-> keys[i], count |-> CountOf(keys[i])]>>]))

-----------------------------------------------------------------------------
(* The order groupby(sort=True) and sort_values put keys in *)

\* the characters of the texts of the model, in code-point order
Alphabet ==
    <<" ", "\"", "$", ",", "-", ".", "0", "1", "2", "3", "4", "5", "6", "7", "8", "9",
      "A", "B", "C", "D", "E", "F", "G", "H", "I", "J", "K", "L", "M", "N", "O", "P", "Q",
      "R", "S", "T", "U", "V", "W", "X", "Y", "Z", "[", "]",
      "a", "b", "c", "d", "e", "f", "g", "h", "i", "j", "k", "l", "m", "n", "o", "p", "q",
      "r", "s", "t", "u", "v", "w", "x", "y", "z">>

CharRank(c) == CHOOSE i \in 1..Len(Alphabet) : Alphabet[i] = c

\* a < b on two str
RECURSIVE TextLt(_, _)
TextLt(a, b) ==
    IF b = <<>> THEN FALSE
    ELSE IF a = <<>> THEN TRUE
    ELSE IF Head(a) = Head(b) THEN TextLt(Tail(a), Tail(b))
    ELSE CharRank(Head(a)) < CharRank(Head(b))

\* x < y on two cells of one kind (numbers, or str)
CellLt(x, y) ==
    IF x.t = "str" /\ y.t = "str" THEN TextLt(x.s, y.s)
    ELSE IF x.t = "bool" /\ y.t = "bool" THEN x.n < y.n
    ELSE NumLt(x, y)

\* k1 < k2 on two group keys (tuples of cells of the same length)
RECURSIVE KeyLt(_, _)
KeyLt(k1, k2) ==
    IF k1 = <<>> THEN FALSE
    ELSE IF Head(k1) = Head(k2) THEN KeyLt(Tail(k1), Tail(k2))
    ELSE CellLt(Head(k1), Head(k2))

\* the group keys of df.groupby(by): the distinct tuples of the columns by over the
\* rows where none of them is missing, in sorted order
GroupKeys(rows, by) ==
    LET tuples == [i \in 1..Len(rows) |-> [j \in 1..Len(by) |-> rows[i][by[j]]]]
        whole == {i \in 1..Len(rows) : \A j \in 1..Len(by) : ~IsNA(tuples[i][j])}
        firsts == {i \in whole : \A j \in 1..(i - 1) : tuples[j] # tuples[i]}
        keys == SelectRows(tuples, firsts)
        Rank(k) == Cardinality({i \in 1..Len(keys) : KeyLt(keys[i], k)})
    IN  Items(SortPairs([i \in 1..Len(keys) |-> <<Rat(Rank(keys[i]), 1), keys[i]>>]))

\* the rows of the group of key
GroupRows(rows, by, key) ==
    SelectRows(rows, {i \in 1..Len(rows) : \A j \in 1..Len(by) : rows[i][by[j]] = key[j]})

-----------------------------------------------------------------------------
(* What an analyzer method gives back: a mapping or table it returned, or the *)
(* exception that escaped it                                                   *)

Raise(e) == [exc |-> e, kind |-> "raised"]

\* x / n * 100 on two counts: a share in percent
Percent(x, n) == RatMul(RatDiv(Rat(x, 1), Rat(n, 1)), Rat(100, 1))

-----------------------------------------------------------------------------
(* MarketOverviewAnalyzer *)

\* get_total_active_listings(): len(self.df)
get_total_active_listings(df) == [exc |-> "none", kind |-> "count", v |-> Len(df.rows)]

\* the host shares on the 0..1 scale
HostSharesUnitScale(df) ==
    LET counts == ValueCounts(Column(df.rows, "host_id"))
    IN  [i \in 1..Len(counts) |-> RatDiv(Rat(counts[i].count, 1), Rat(Len(df.rows), 1))]

\* self.df["host_id"].value_counts() / len(self.df) * 100, largest share first
\* the shares taken of the listings that have a host id
HostSharesOfKnown(df) ==
    LET counts == ValueCounts(Column(df.rows, "host_id"))
        known == Len(SelectRows(df.rows, {i \in 1..Len(df.rows) : ~IsNA(df.rows[i].host_id)}))
    IN  [i \in 1..Len(counts) |-> Percent(counts[i].count, known)]

HostShares(df) ==
    LET counts == ValueCounts(Column(df.rows, "host_id"))
    IN  [i \in 1..Len(counts) |-> Percent(counts[i].count, Len(df.rows))]

\* get_market_concentration() with the sums taken as mean * count, which is undefined
\* for a table without hosts
ConcentrationFromMeans(df) ==
    IF "host_id" \notin df.cols THEN Raise("KeyError")
    ELSE LET shares == [i \in 1..Len(HostShares(df)) |-> Float(HostShares(df)[i])]
             squares == [i \in 1..Len(shares) |-> NumMul(shares[i], shares[i])]
         IN  [exc |-> "none", kind |-> "concentration",
              hhi |-> NumMul(MeanCell(squares), IntC(Len(squares))),
              top_10_host_share_pct |->
                  NumMul(MeanCell(Take(shares, 10)), IntC(Len(Take(shares, 10)))),
              unique_hosts |-> NUnique(Column(df.rows, "host_id"))]

\* get_market_concentration()
get_market_concentration(df) ==
    IF "host_id" \notin df.cols THEN Raise("KeyError")
    ELSE LET shares == HostShares(df)
             squares == [i \in 1..Len(shares) |-> RatMul(shares[i], shares[i])]
         IN  [exc |-> "none", kind |-> "concentration",
              hhi |-> Float(RatSum(squares)),
              top_10_host_share_pct |-> Float(RatSum(Take(shares, 10))),
              unique_hosts |-> NUnique(Column(df.rows, "host_id"))]

\* get_top_hosts(n)
get_top_hosts(df, n) ==
    LET existing == SelectRows(<<"host_id", "host_name">>,
                               {i \in 1..2 : <<"host_id", "host_name">>[i] \in df.cols})
    IN  IF existing = <<>> THEN [exc |-> "none", kind |-> "table", rows |-> <<>>]
        ELSE IF ~({"id", "price", "review_scores_rating"} \subseteq df.cols)
        THEN Raise("KeyError")
        ELSE LET keys == GroupKeys(df.rows, existing)
                 Host(k) ==
                     LET g == GroupRows(df.rows, existing, k)
                     IN  [key |-> k,
                          listings |-> Count(Column(g, "id")),
                          avg_price |-> MeanCell(Column(g, "price")),
                          avg_rating |-> MeanCell(Column(g, "review_scores_rating")),
                          market_share_pct |->
                              Float(Percent(Count(Column(g, "id")), Len(df.rows)))]
                 hosts == [i \in 1..Len(keys) |-> Host(keys[i])]
                 largest == Items(SortPairs([i \in 1..Len(hosts) |->
                                                <<Rat(-hosts[i].listings, 1), hosts[i]>>]))
             IN  [exc |-> "none", kind |-> "table", rows |-> Take(largest, n)]

-----------------------------------------------------------------------------
(* NeighborhoodAnalyzer *)

\* Series.var() (ddof=1) over the finite values; Series.std() is its square root
VarCell(cells) ==
    LET vals == Numbers(cells)
        n == Len(vals)
        sum == RatSum(vals)
        squares == RatSum([i \in 1..n |-> RatMul(vals[i], vals[i])])
    IN  IF n < 2 THEN NA
        ELSE Float(RatDiv(RatSub(RatMul(Rat(n, 1), squares), RatMul(sum, sum)),
                          Rat(n * (n - 1), 1)))

\* rows.sort_values(by, ascending=False): largest first, missing last, equal values
\* in the order they had
SortDescending(rows, by) ==
    LET known == SelectRows(rows, {i \in 1..Len(rows) : ~IsNA(rows[i][by])})
        unknown == SelectRows(rows, {i \in 1..Len(rows) : IsNA(rows[i][by])})
        Key(x) == Rat(-x.n, x.d)
    IN  Items(SortPairs([i \in 1..Len(known) |-> <<Key(known[i][by]), known[i]>>])) \o unknown

\* get_adr_by_neighborhood(min_listings); adr_var stands for adr_std (its square)
get_adr_by_neighborhood(df, min_listings) ==
    IF ~({"neighbourhood_cleansed", "price"} \subseteq df.cols) THEN Raise("KeyError")
    ELSE LET by == <<"neighbourhood_cleansed">>
             keys == GroupKeys(df.rows, by)
             Stats(k) ==
                 LET prices == Column(GroupRows(df.rows, by, k), "price")
                 IN  [neighbourhood_cleansed |-> k[1],
                      adr_mean |-> MeanCell(prices),
                      adr_median |-> MedianCell(prices),
                      adr_var |-> VarCell(prices),
                      listings |-> Count(prices)]
             nh == [i \in 1..Len(keys) |-> Stats(keys[i])]
             enough == SelectRows(nh, {i \in 1..Len(nh) : nh[i].listings >= min_listings})
         IN  [exc |-> "none", kind |-> "table", rows |-> SortDescending(enough, "adr_mean")]

\* get_listing_density()
get_listing_density(df) ==
    IF "neighbourhood_cleansed" \notin df.cols THEN Raise("KeyError")
    ELSE LET counts == ValueCounts(Column(df.rows, "neighbourhood_cleansed"))
             total == RatSum([i \in 1..Len(counts) |-> Rat(counts[i].count, 1)])
         IN  [exc |-> "none", kind |-> "table",
              rows |-> [i \in 1..Len(counts) |->
                           [neighbourhood |-> counts[i].key,
                            listing_count |-> counts[i].count,
                            pct_of_total |-> Float(Percent(counts[i].count, total.n))]]]

\* get_neighborhood_profile(neighborhood)
NotFound(neighborhood) ==
    [exc |-> "none", kind |-> "not_found",
     error |-> <<"N", "o", " ", "l", "i", "s", "t", "i", "n", "g", "s", " ", "f", "o", "u",
                 "n", "d", " ", "i", "n", " ", "'">> \o PyStr(neighborhood) \o <<"'">>]

\* Series.mode().iloc[0]: the most frequent value, the smallest of them on a tie;
\* None when every value is missing
Mode(cells) ==
    LET keys == Uniques(cells)
        CountOf(k) == Cardinality({i \in 1..Len(cells) : cells[i] = k})
        most == {i \in 1..Len(keys) : \A j \in 1..Len(keys) : CountOf(keys[j]) <= CountOf(keys[i])}
    IN  IF keys = <<>> THEN NA
        ELSE keys[CHOOSE i \in most : \A j \in most : ~CellLt(keys[j], keys[i])]

\* the test of get_neighborhood_profile with "rows exist" turned around
ProfileMissesWhenFound(nh_rows) == nh_rows # <<>>

\* nh_df.empty
ProfileMisses(nh_rows) == nh_rows = <<>>

get_neighborhood_profile(df, neighborhood) ==
    IF "neighbourhood_cleansed" \notin df.cols THEN Raise("KeyError")
    ELSE LET nh_rows == RowsWhere(df.rows, "neighbourhood_cleansed", neighborhood)
         IN  IF ProfileMisses(nh_rows) THEN NotFound(neighborhood)
             ELSE IF ~({"price", "room_type", "review_scores_rating", "accommodates"}
                          \subseteq df.cols)
             THEN Raise("KeyError")
             ELSE [exc |-> "none", kind |-> "profile",
                   neighborhood |-> neighborhood,
                   total_listings |-> Len(nh_rows),
                   adr_mean |-> MeanCell(Column(nh_rows, "price")),
                   adr_median |-> MedianCell(Column(nh_rows, "price")),
                   dominant_room_type |-> Mode(Column(nh_rows, "room_type")),
                   avg_rating |-> MeanCell(Column(nh_rows, "review_scores_rating")),
                   pct_superhost |->
                       IF "is_superhost" \in df.cols
                       THEN NumMul(MeanCell(Column(nh_rows, "is_superhost")), IntC(100))
                       ELSE NA,
                   avg_accommodates |-> MeanCell(Column(nh_rows, "accommodates"))]

\* A score of get_market_saturation_score is a quotient a / (b + 1e-9). With
\* eps = 1e-9 it is kept to first order as st + d * eps (st, d rationals), which
\* orders the scores as the quotients themselves are ordered.
Score(st, d) == [t |-> "score", st |-> st, d |-> d]

\* a / (b + eps) for 0 <= a <= b
EpsQuotient(a, b) ==
    IF b.n = 0 THEN Score(Rat(0, 1), Rat(0, 1))
    ELSE Score(RatDiv(a, b), RatSub(Rat(0, 1), RatDiv(a, RatMul(b, b))))

\* the normalized availability itself, not inverted
ScoreKept(x) == x

\* 1 - x
ScoreComplement(x) == Score(RatSub(Rat(1, 1), x.st), RatSub(Rat(0, 1), x.d))

\* (x + y) / 2
ScoreMean(x, y) ==
    Score(RatDiv(RatAdd(x.st, y.st), Rat(2, 1)), RatDiv(RatAdd(x.d, y.d), Rat(2, 1)))

\* x < y on two scores
ScoreLt(x, y) == RatLt(x.st, y.st) \/ (x.st = y.st /\ RatLt(x.d, y.d))

\* Series.min() and Series.max() over the finite values (missing when there is none)
MinCell(cells) ==
    LET vals == Numbers(cells)
    IN  IF vals = <<>> THEN NA ELSE Float(OrderStat(vals, 1))

MaxCell(cells) ==
    LET vals == Numbers(cells)
    IN  IF vals = <<>> THEN NA ELSE Float(OrderStat(vals, Len(vals)))

\* nh.sort_values("saturation_score", ascending=False): the scored rows by falling
\* score, those without a score last
SortBySaturation(scored) ==
    LET known == SelectRows(scored, {i \in 1..Len(scored) : ~IsNA(scored[i].saturation_score)})
        unknown == SelectRows(scored, {i \in 1..Len(scored) : IsNA(scored[i].saturation_score)})
        Ranked(rows) ==
            LET Rank(r) == Cardinality({i \in 1..Len(rows) :
                                           ScoreLt(r.saturation_score, rows[i].saturation_score)})
            IN  Items(SortPairs([i \in 1..Len(rows) |-> <<Rat(Rank(rows[i]), 1), rows[i]>>]))
    IN  Bind(known, Ranked) \o unknown

\* the supply, demand and saturation scores of the per-neighbourhood rows nh
SaturationScores(nh) ==
    LET counts == Column(nh, "listing_count")
        avails == Column(nh, "avg_availability_365")
        Scored(r, lo_n, hi_n, lo_a, hi_a) ==
            LET supply == EpsQuotient(RatSub(RatOf(r.listing_count), RatOf(lo_n)),
                                      RatSub(RatOf(hi_n), RatOf(lo_n)))
                demand ==
                    IF IsNA(r.avg_availability_365) THEN NA
                    ELSE ScoreComplement(
                             EpsQuotient(RatSub(RatOf(r.avg_availability_365), RatOf(lo_a)),
                                         RatSub(RatOf(hi_a), RatOf(lo_a))))
            IN  [neighbourhood_cleansed |-> r.neighbourhood_cleansed,
                 listing_count |-> r.listing_count,
                 avg_availability_365 |-> r.avg_availability_365,
                 supply_score |-> supply,
                 demand_score |-> demand,
                 saturation_score |-> IF IsNA(demand) THEN NA ELSE ScoreMean(supply, demand)]
        Over(ext) == [i \in 1..Len(nh) |-> Scored(nh[i], ext[1], ext[2], ext[3], ext[4])]
    IN  Bind(<<MinCell(counts), MaxCell(counts), MinCell(avails), MaxCell(avails)>>, Over)

\* get_market_saturation_score()
get_market_saturation_score(df) ==
    IF ~({"neighbourhood_cleansed", "id", "availability_365"} \subseteq df.cols)
    THEN Raise("KeyError")
    ELSE LET by == <<"neighbourhood_cleansed">>
             Agg(k) ==
                 LET g == GroupRows(df.rows, by, k)
                 IN  [neighbourhood_cleansed |-> k[1],
                      listing_count |-> IntC(Count(Column(g, "id"))),
                      avg_availability_365 |-> MeanCell(Column(g, "availability_365"))]
             Grouped(keys) == [i \in 1..Len(keys) |-> Agg(keys[i])]
             Sorted(nh) == Bind(SaturationScores(nh), SortBySaturation)
         IN  [exc |-> "none", kind |-> "table",
              rows |-> Bind(Bind(GroupKeys(df.rows, by), Grouped), Sorted)]

\* the columns a geo boundary frame may have
GeoCols == {"neighbourhood", "name", "geometry"}

\* geo.merge(adr, left_on=merge_col, right_on="neighbourhood_cleansed", how="inner"):
\* the boundaries without a match are dropped
InnerJoin(left, adr, merge_col) ==
    LET Matches(g) == SelectRows(adr, {j \in 1..Len(adr) :
                                          adr[j].neighbourhood_cleansed = g[merge_col]})
        Joined(g) == [j \in 1..Len(Matches(g)) |->
                         [boundary |-> g,
                          neighbourhood_cleansed |-> Matches(g)[j].neighbourhood_cleansed,
                          adr_mean |-> Matches(g)[j].adr_mean,
                          adr_median |-> Matches(g)[j].adr_median,
                          adr_var |-> Matches(g)[j].adr_var,
                          listings |-> IntC(Matches(g)[j].listings)]]
        Rows[i \in 0..Len(left)] == IF i = 0 THEN <<>> ELSE Rows[i - 1] \o Joined(left[i])
    IN  Rows[Len(left)]

\* geo.merge(adr, left_on=merge_col, right_on="neighbourhood_cleansed", how="left"):
\* every boundary, once per matching row of adr, and once with missing values when
\* no row of adr matches
LeftJoin(left, adr, merge_col) ==
    LET Pairs(g, matches) ==
            IF matches = <<>>
            THEN << [boundary |-> g, neighbourhood_cleansed |-> NA, adr_mean |-> NA,
                     adr_median |-> NA, adr_var |-> NA, listings |-> NA] >>
            ELSE [j \in 1..Len(matches) |->
                     [boundary |-> g,
                      neighbourhood_cleansed |-> matches[j].neighbourhood_cleansed,
                      adr_mean |-> matches[j].adr_mean,
                      adr_median |-> matches[j].adr_median,
                      adr_var |-> matches[j].adr_var,
                      listings |-> IntC(matches[j].listings)]]
        Joined(g) ==
            Pairs(g, SelectRows(adr, {j \in 1..Len(adr) :
                                        adr[j].neighbourhood_cleansed = g[merge_col]}))
        Rows[i \in 0..Len(left)] == IF i = 0 THEN <<>> ELSE Rows[i - 1] \o Joined(left[i])
    IN  Rows[Len(left)]

\* get_price_heatmap_data()
get_price_heatmap_data(df, geo_df) ==
    IF ~geo_df.present THEN Raise("ValueError")
    ELSE LET merge_col == IF \E i \in 1..Len(geo_df.cols) : geo_df.cols[i] = "neighbourhood"
                          THEN "neighbourhood" ELSE geo_df.cols[1]
             \* .astype(str) on both join columns
             Right(adr) == [j \in 1..Len(adr.rows) |->
                              [adr.rows[j] EXCEPT !.neighbourhood_cleansed = Str(PyStr(@))]]
             left == [i \in 1..Len(geo_df.rows) |->
                         [geo_df.rows[i] EXCEPT ![merge_col] = Str(PyStr(@))]]
             Merged(right) == LeftJoin(left, right, merge_col)
             WithAvgPrice(merged) ==
                 [i \in 1..Len(merged) |->
                     [boundary |-> merged[i].boundary,
                      neighbourhood_cleansed |-> merged[i].neighbourhood_cleansed,
                      adr_mean |-> merged[i].adr_mean,
                      adr_median |-> merged[i].adr_median,
                      adr_var |-> merged[i].adr_var,
                      listings |-> merged[i].listings,
                      avg_price |-> merged[i].adr_mean]]
             Heatmap(adr) ==
                 IF adr.exc # "none" THEN adr
                 ELSE IF geo_df.cols = <<>> THEN Raise("IndexError")
                 ELSE [exc |-> "none", kind |-> "table",
                       rows |-> Bind(Bind(Bind(adr, Right), Merged), WithAvgPrice)]
         IN  Bind(get_adr_by_neighborhood(df, 1), Heatmap)

-----------------------------------------------------------------------------
(* CompetitiveAnalyzer *)

\* the labels of the configured segments, in declaration order
\* the declaration order followed by "Other", so that the row of the listings
\* outside every segment is kept
SegmentOrderWithOther(segments) == [i \in 1..Len(segments) |-> segments[i].label] \o <<Other>>

SegmentOrder(segments) == [i \in 1..Len(segments) |-> segments[i].label]

\* the frame add_segments_to_df and segment_by_price build: self.df with a
\* 'segment' column
WithSegments(df, segments) ==
    LET Segment(r) == Str(_assign_segment(segments, r.price))
    IN  SetColumn(df, "segment", Segment)

\* add_segments_to_df()
add_segments_to_df(df, segments) ==
    IF "price" \notin df.cols THEN Raise("KeyError")
    ELSE [exc |-> "none", kind |-> "frame", df |-> WithSegments(df, segments)]

\* segment_by_price()
segment_by_price(df, segments) ==
    IF "price" \notin df.cols THEN Raise("KeyError")
    ELSE IF ~({"id", "review_scores_rating"} \subseteq df.cols) THEN Raise("KeyError")
    ELSE LET rows == WithSegments(df, segments).rows
             by == <<"segment">>
             keys == GroupKeys(rows, by)
             Agg(k) ==
                 LET g == GroupRows(rows, by, k)
                 IN  [segment |-> k[1].s,
                      listings |-> Count(Column(g, "id")),
                      avg_price |-> MeanCell(Column(g, "price")),
                      median_price |-> MedianCell(Column(g, "price")),
                      avg_rating |-> MeanCell(Column(g, "review_scores_rating"))]
             summary == [i \in 1..Len(keys) |-> Agg(keys[i])]
             total == RatSum([i \in 1..Len(summary) |-> Rat(summary[i].listings, 1)]).n
             WithPct(s) ==
                 [segment |-> s.segment, listings |-> s.listings, avg_price |-> s.avg_price,
                  median_price |-> s.median_price, avg_rating |-> s.avg_rating,
                  pct |-> NumMul(NumDiv(IntC(s.listings), IntC(total)), IntC(100))]
             order == SegmentOrder(segments)
             present == SelectRows(order, {i \in 1..Len(order) :
                                              \E j \in 1..Len(summary) :
                                                  summary[j].segment = order[i]})
             Row(label) ==
                 WithPct(summary[CHOOSE j \in 1..Len(summary) : summary[j].segment = label])
         IN  [exc |-> "none", kind |-> "table",
              rows |-> [i \in 1..Len(present) |-> Row(present[i])]]

\* the result of get_superhost_premium when a group is absent
InsufficientData ==
    [exc |-> "none", kind |-> "note",
     note |-> <<"I", "n", "s", "u", "f", "f", "i", "c", "i", "e", "n", "t", " ", "d", "a", "t", "a",
                " ", "f", "o", "r", " ", "s", "u", "p", "e", "r", "h", "o", "s", "t", " ",
                "c", "o", "m", "p", "a", "r", "i", "s", "o", "n">>]

\* {}: a mapping without entries
EmptyMapping == [exc |-> "none", kind |-> "empty"]

\* True not in groups.index or False not in groups.index
LacksAGroup(keys) == <<BoolC(TRUE)>> \notin keys \/ <<BoolC(FALSE)>> \notin keys

\* get_superhost_premium()
get_superhost_premium(df) ==
    IF "is_superhost" \notin df.cols THEN EmptyMapping
    ELSE IF ~({"price", "review_scores_rating", "number_of_reviews", "id"} \subseteq df.cols)
    THEN Raise("KeyError")
    ELSE LET by == <<"is_superhost">>
             keys == GroupKeys(df.rows, by)
             Agg(k) ==
                 LET g == GroupRows(df.rows, by, k)
                 IN  [avg_price |-> MeanCell(Column(g, "price")),
                      median_price |-> MedianCell(Column(g, "price")),
                      avg_rating |-> MeanCell(Column(g, "review_scores_rating")),
                      avg_reviews |-> MeanCell(Column(g, "number_of_reviews")),
                      count |-> Count(Column(g, "id"))]
             sh == Agg(<<BoolC(TRUE)>>)
             reg == Agg(<<BoolC(FALSE)>>)
         IN  IF LacksAGroup({keys[i] : i \in 1..Len(keys)}) THEN InsufficientData
             ELSE [exc |-> "none", kind |-> "premium",
                   superhost_avg_price |-> sh.avg_price,
                   regular_avg_price |-> reg.avg_price,
                   price_premium_pct |->
                       NumMul(NumDiv(NumSub(sh.avg_price, reg.avg_price), reg.avg_price),
                              IntC(100)),
                   superhost_avg_rating |-> sh.avg_rating,
                   regular_avg_rating |-> reg.avg_rating,
                   superhost_count |-> sh.count,
                   regular_count |-> reg.count]

\* str.lower() on a text of the model's alphabet
TextLower(s) ==
    [i \in 1..Len(s) |->
        IF CharRank(s[i]) \in CharRank("A")..CharRank("Z")
        THEN Alphabet[CharRank(s[i]) + (CharRank("a") - CharRank("A"))]
        ELSE s[i]]

\* round(x, 1) for x >= 0: to the nearest tenth, a tie to the even one
RoundTenth(x) ==
    LET scaled == RatMul(x, Rat(10, 1))
        floor == scaled.n \div scaled.d
        twice == 2 * (scaled.n - floor * scaled.d)
        up == twice > scaled.d \/ (twice = scaled.d /\ floor % 2 = 1)
    IN  Rat(IF up THEN floor + 1 ELSE floor, 10)

\* most entries identify_market_gaps returns
GapCap == 15

\* the gap test with "and" in place of "or"
IsGapBoth(count, pct) == count < 3 /\ RatLt(pct, Rat(10, 1))

\* count < 3 or pct < 10
IsGap(count, pct) == count < 3 \/ RatLt(pct, Rat(10, 1))

\* the gaps of one neighbourhood, in segment declaration order
GapsOf(rows, nh, labels) ==
    LET nh_rows == RowsWhere(rows, "neighbourhood_cleansed", nh)
        total == Len(nh_rows)
        CountOf(label) == Len(RowsWhere(nh_rows, "segment", Str(label)))
        PctOf(label) == IF total # 0 THEN Percent(CountOf(label), total) ELSE Rat(0, 1)
        flagged == SelectRows(labels, {i \in 1..Len(labels) :
                                          IsGap(CountOf(labels[i]), PctOf(labels[i]))})
    IN  [i \in 1..Len(flagged) |->
            [neighbourhood |-> nh,
             segment |-> flagged[i],
             current_listings |-> CountOf(flagged[i]),
             pct_of_neighborhood |-> Float(RoundTenth(PctOf(flagged[i]))),
             opportunity |-> <<"L", "o", "w", " ">> \o TextLower(flagged[i])
                                \o <<" ", "s", "u", "p", "p", "l", "y", " ", "i", "n", " ">>
                                \o PyStr(nh)]]

\* the gaps appended by the loops of identify_market_gaps, before the sort
GapCandidates(df, config) ==
    LET rows == WithSegments(df, config.segments).rows
        ranked == ValueCounts(Column(rows, "neighbourhood_cleansed"))
        top == Take(ranked, config.top_neighborhoods)
        labels == SegmentOrder(config.segments)
        Pool[i \in 0..Len(top)] ==
            IF i = 0 THEN <<>> ELSE Pool[i - 1] \o GapsOf(rows, top[i].key, labels)
    IN  Pool[Len(top)]

\* identify_market_gaps()
identify_market_gaps(df, config) ==
    IF ~({"price", "neighbourhood_cleansed"} \subseteq df.cols) THEN Raise("KeyError")
    ELSE LET gaps == GapCandidates(df, config)
             sorted == Items(SortPairs([i \in 1..Len(gaps) |->
                                           <<Rat(gaps[i].current_listings, 1), gaps[i]>>]))
         IN  [exc |-> "none", kind |-> "list", rows |-> Take(sorted, GapCap)]

-----------------------------------------------------------------------------
(* SeasonalityAnalyzer *)

\* get_price_by_month(); std_var stands for std_price (its square)
get_price_by_month(cal) ==
    IF ~({"price", "month"} \subseteq cal.cols) THEN Raise("KeyError")
    ELSE LET priced == SelectRows(cal.rows, {i \in 1..Len(cal.rows) : ~IsNA(cal.rows[i].price)})
             by == <<"month">>
             keys == GroupKeys(priced, by)
             Agg(k) ==
                 LET prices == Column(GroupRows(priced, by, k), "price")
                 IN  [month |-> k[1],
                      avg_price |-> MeanCell(prices),
                      median_price |-> MedianCell(prices),
                      std_var |-> VarCell(prices),
                      observations |-> Count(prices)]
         IN  [exc |-> "none", kind |-> "table",
              rows |-> [i \in 1..Len(keys) |-> Agg(keys[i])]]

\* the truth value of a float: only 0.0 is false, NaN is true
FloatTruthy(x) == IsNA(x) \/ x.t = "inf" \/ x.n # 0

\* ((a - b) / b * 100) if b else 0
PremiumPct(a, b) ==
    IF FloatTruthy(b) THEN NumMul(NumDiv(NumSub(a, b), b), IntC(100)) ELSE IntC(0)

\* Series.isin(months) on one cell
IsIn(x, months) == \E i \in 1..Len(months) : NumEq(x, IntC(months[i]))

\* identify_peak_season()
identify_peak_season(cal, config) ==
    LET price_by_month == get_price_by_month(cal)
        monthly == price_by_month.rows
        high_months == config.high_season_months
        low_months == config.low_season_months
        high_avg == MeanCell(Column(SelectRows(monthly, {i \in 1..Len(monthly) :
                                        IsIn(monthly[i].month, high_months)}), "avg_price"))
        low_avg == MeanCell(Column(SelectRows(monthly, {i \in 1..Len(monthly) :
                                       IsIn(monthly[i].month, low_months)}), "avg_price"))
    IN  IF price_by_month.exc # "none" THEN price_by_month
        ELSE [exc |-> "none", kind |-> "season",
              high_season_months |-> high_months,
              low_season_months |-> low_months,
              high_season_avg_price |-> high_avg,
              low_season_avg_price |-> low_avg,
              seasonal_premium_pct |-> PremiumPct(high_avg, low_avg)]

\* get_weekend_vs_weekday_pricing()
get_weekend_vs_weekday_pricing(cal) ==
    IF ~({"price", "is_weekend"} \subseteq cal.cols) THEN Raise("KeyError")
    ELSE LET rows == SelectRows(cal.rows, {i \in 1..Len(cal.rows) : ~IsNA(cal.rows[i].price)})
             weekend == Column(SelectRows(rows, {i \in 1..Len(rows) :
                                   rows[i].is_weekend = BoolC(TRUE)}), "price")
             weekday == Column(SelectRows(rows, {i \in 1..Len(rows) :
                                   rows[i].is_weekend = BoolC(FALSE)}), "price")
         IN  [exc |-> "none", kind |-> "weekend",
              weekend_avg |-> MeanCell(weekend),
              weekday_avg |-> MeanCell(weekday),
              weekend_premium_pct |-> PremiumPct(MeanCell(weekend), MeanCell(weekday)),
              weekend_median |-> MedianCell(weekend),
              weekday_median |-> MedianCell(weekday)]

-----------------------------------------------------------------------------
(* The analyzer methods that summarise one column or one grouping *)

\* Series.quantile(q) for q = num / 4, by linear interpolation between order statistics
QuantileCell(cells, num) ==
    LET vals == Numbers(cells)
        n == Len(vals)
        lo == ((n - 1) * num) \div 4
        rest == ((n - 1) * num) % 4
        Below(k) == OrderStat(vals, k + 1)
    IN  IF n = 0 THEN NA
        ELSE IF rest = 0 THEN Float(Below(lo))
        ELSE Float(RatAdd(Below(lo),
                          RatMul(Rat(rest, 4), RatSub(Below(lo + 1), Below(lo)))))

\* get_adr_by_room_type(); adr_var stands for adr_std (its square)
get_adr_by_room_type(df) ==
    IF ~({"room_type", "price"} \subseteq df.cols) THEN Raise("KeyError")
    ELSE LET by == <<"room_type">>
             Stats(k) ==
                 LET prices == Column(GroupRows(df.rows, by, k), "price")
                 IN  [room_type |-> k[1],
                      adr_mean |-> MeanCell(prices),
                      adr_median |-> MedianCell(prices),
                      adr_var |-> VarCell(prices),
                      listings |-> Count(prices)]
             Grouped(keys) == SortDescending([i \in 1..Len(keys) |-> Stats(keys[i])], "adr_mean")
         IN  [exc |-> "none", kind |-> "table", rows |-> Bind(GroupKeys(df.rows, by), Grouped)]

\* get_price_distribution(); var stands for std (its square)
get_price_distribution(df) ==
    IF "price" \notin df.cols THEN Raise("KeyError")
    ELSE LET Stats(prices) ==
                 [exc |-> "none", kind |-> "distribution",
                  mean |-> MeanCell(prices), median |-> MedianCell(prices),
                  var |-> VarCell(prices),
                  min |-> MinCell(prices), max |-> MaxCell(prices),
                  q25 |-> QuantileCell(prices, 1), q75 |-> QuantileCell(prices, 3),
                  count |-> Len(prices)]
         IN  Bind(SelectRows(Column(df.rows, "price"),
                             {i \in 1..Len(df.rows) : ~IsNA(df.rows[i].price)}), Stats)

\* counts = self.df[col].value_counts(); pct = counts / counts.sum() * 100
SupplyBy(df, col) ==
    LET Shares(counts) ==
            LET total == RatSum([i \in 1..Len(counts) |-> Rat(counts[i].count, 1)]).n
            IN  [i \in 1..Len(counts) |->
                    [key |-> counts[i].key, count |-> counts[i].count,
                     pct |-> Float(Percent(counts[i].count, total))]]
    IN  Bind(ValueCounts(Column(df.rows, col)), Shares)

\* get_supply_by_property_type()
get_supply_by_property_type(df) ==
    IF "property_type" \notin df.cols THEN Raise("KeyError")
    ELSE [exc |-> "none", kind |-> "table", rows |-> Take(SupplyBy(df, "property_type"), 15)]

\* get_supply_by_room_type()
get_supply_by_room_type(df) ==
    IF "room_type" \notin df.cols THEN Raise("KeyError")
    ELSE [exc |-> "none", kind |-> "table", rows |-> SupplyBy(df, "room_type")]

\* (scores >= bound).mean() * 100
PctAtLeast(scores, bound) ==
    IF Len(scores) = 0 THEN NA
    ELSE Float(Percent(Cardinality({i \in 1..Len(scores) : NumLe(Float(bound), scores[i])}),
                       Len(scores)))

\* get_rating_distribution(); var stands for std (its square)
get_rating_distribution(df) ==
    IF "review_scores_rating" \notin df.cols THEN Raise("KeyError")
    ELSE LET Stats(scores) ==
                 [exc |-> "none", kind |-> "ratings",
                  mean |-> MeanCell(scores), median |-> MedianCell(scores),
                  var |-> VarCell(scores),
                  pct_above_4 |-> PctAtLeast(scores, Rat(4, 1)),
                  pct_above_4_5 |-> PctAtLeast(scores, Rat(9, 2)),
                  total_with_rating |-> Len(scores),
                  total_listings |-> Len(df.rows)]
         IN  Bind(SelectRows(Column(df.rows, "review_scores_rating"),
                             {i \in 1..Len(df.rows) : ~IsNA(df.rows[i].review_scores_rating)}),
                  Stats)

\* get_summary()
get_summary(df) ==
    LET Summary(parts) ==
            IF parts[1].exc # "none" THEN parts[1]
            ELSE IF parts[2].exc # "none" THEN parts[2]
            ELSE IF parts[3].exc # "none" THEN parts[3]
            ELSE [exc |-> "none", kind |-> "summary",
                  total_listings |-> get_total_active_listings(df),
                  adr_mean |-> parts[1].mean,
                  adr_median |-> parts[1].median,
                  unique_hosts |-> parts[2].unique_hosts,
                  top_10_host_share |-> parts[2].top_10_host_share_pct,
                  avg_rating |-> parts[3].mean,
                  pct_superhost |->
                      IF "is_superhost" \in df.cols
                      THEN NumMul(MeanCell(Column(df.rows, "is_superhost")), IntC(100))
                      ELSE NA]
    IN  Bind(<<get_price_distribution(df), get_market_concentration(df),
               get_rating_distribution(df)>>, Summary)

\* get_price_vs_rating()
get_price_vs_rating(df, segments) ==
    IF "price" \notin df.cols THEN Raise("KeyError")
    ELSE IF ~({"review_scores_rating", "room_type", "neighbourhood_cleansed"} \subseteq df.cols)
    THEN Raise("KeyError")
    ELSE LET Subset(rows) ==
                 LET kept == SelectRows(rows, {i \in 1..Len(rows) :
                                 ~IsNA(rows[i].price) /\ ~IsNA(rows[i].review_scores_rating)})
                 IN  [i \in 1..Len(kept) |->
                         [price |-> kept[i].price,
                          review_scores_rating |-> kept[i].review_scores_rating,
                          segment |-> kept[i].segment,
                          room_type |-> kept[i].room_type,
                          neighbourhood_cleansed |-> kept[i].neighbourhood_cleansed]]
         IN  [exc |-> "none", kind |-> "table",
              rows |-> Bind(WithSegments(df, segments).rows, Subset)]

AmenitiesMissing ==
    [exc |-> "none", kind |-> "not_found",
     error |-> <<"a", "m", "e", "n", "i", "t", "i", "e", "s", "_", "l", "i", "s", "t", " ",
                 "c", "o", "l", "u", "m", "n", " ", "m", "i", "s", "s", "i", "n", "g">>]

\* the amenities of rows, one after the other, as str cells
AllAmenities(rows) ==
    LET Names(r) == [j \in 1..Len(r.amenities_list.l) |-> Str(r.amenities_list.l[j])]
        Joined[i \in 0..Len(rows)] == IF i = 0 THEN <<>> ELSE Joined[i - 1] \o Names(rows[i])
    IN  Joined[Len(rows)]

\* get_amenity_analysis(): pd.Series(Counter(...)).sort_values(ascending=False)
get_amenity_analysis(df, segments) ==
    IF "amenities_list" \notin df.cols THEN AmenitiesMissing
    ELSE IF "price" \notin df.cols THEN Raise("KeyError")
    ELSE LET order == SegmentOrder(segments)
             Analysis(rows) ==
                 [exc |-> "none", kind |-> "amenities",
                  overall |-> ValueCounts(AllAmenities(rows)),
                  by_segment |->
                      [i \in 1..Len(order) |->
                          Take(ValueCounts(AllAmenities(RowsWhere(rows, "segment", Str(order[i])))),
                               20)],
                  total_unique |-> NUnique(AllAmenities(rows))]
         IN  Bind(WithSegments(df, segments).rows, Analysis)

\* get_availability_by_month()
get_availability_by_month(cal) ==
    IF ~({"month", "available"} \subseteq cal.cols) THEN Raise("KeyError")
    ELSE LET by == <<"month">>
             Agg(k) ==
                 LET avail == Column(GroupRows(cal.rows, by, k), "available")
                 IN  [month |-> k[1],
                      availability_rate |-> MeanCell(avail),
                      observations |-> Count(avail),
                      occupancy_rate |-> NumSub(IntC(1), MeanCell(avail))]
             Grouped(keys) == [i \in 1..Len(keys) |-> Agg(keys[i])]
         IN  [exc |-> "none", kind |-> "table", rows |-> Bind(GroupKeys(cal.rows, by), Grouped)]

DayNames ==
    << <<"M", "o", "n">>, <<"T", "u", "e">>, <<"W", "e", "d">>, <<"T", "h", "u">>,
       <<"F", "r", "i">>, <<"S", "a", "t">>, <<"S", "u", "n">> >>

\* get_price_by_day_of_week()
get_price_by_day_of_week(cal) ==
    IF ~({"price", "day_of_week"} \subseteq cal.cols) THEN Raise("KeyError")
    ELSE LET by == <<"day_of_week">>
             Daily(priced) ==
                 LET Agg(k) ==
                         LET prices == Column(GroupRows(priced, by, k), "price")
                         IN  [day_of_week |-> k[1],
                              avg_price |-> MeanCell(prices),
                              median_price |-> MedianCell(prices),
                              day_name |-> IF k[1].n \in 0..6 THEN Str(DayNames[k[1].n + 1])
                                           ELSE NA]
                     Grouped(keys) == [i \in 1..Len(keys) |-> Agg(keys[i])]
                 IN  Bind(GroupKeys(priced, by), Grouped)
         IN  [exc |-> "none", kind |-> "table",
              rows |-> Bind(SelectRows(cal.rows, {i \in 1..Len(cal.rows) :
                                                     ~IsNA(cal.rows[i].price)}), Daily)]

-----------------------------------------------------------------------------
(* The cleaners as functions: the table a whole call returns *)

\* clean_listings(df) under the configuration config, run on the day now
clean_listings(df, config, now) ==
    LET s1 == remove_duplicates(df)
        s2 == NormalizePrice(s1.df)
        s3 == handle_missing_values(s2.df)
        s4 == filter_active_listings(s3.df, config)
        s5 == add_calculated_fields(s4.df, now)
        s6 == ExpandAmenities(s5.df)
    IN  IF s1.exc # "none" THEN s1
        ELSE IF s2.exc # "none" THEN s2
        ELSE IF s3.exc # "none" THEN s3
        ELSE IF s4.exc # "none" THEN s4
        ELSE IF s5.exc # "none" THEN s5
        ELSE s6

\* clean_calendar(df)
clean_calendar(df) ==
    LET s1 == NormalizeCalendar(df)
    IN  IF s1.exc # "none" THEN s1 ELSE DropMissingDates(s1.df)

-----------------------------------------------------------------------------
(* The analyzers over held tables: the tables and configuration they are given *)

\* most rows of a listing table that varies the host, the neighbourhood or the
\* superhost flag, and most rows of a calendar that varies month and price
MaxHeldRows == 2
MaxSeasonRows == 2

TextA == <<"A">>
TextB == <<"B">>
Text150 == <<"$", "1", "5", "0">>
Text250 == <<"$", "2", "5", "0">>
Text0 == <<"$", "0", ".", "0", "0">>
Text100 == <<"$", "1", "0", "0">>
Text200 == <<"$", "2", "0", "0">>
TextSatLow == <<"2", "0", "2", "3", "-", "1", "2", "-", "3", "0">>
TextBudget == <<"B", "u", "d", "g", "e", "t">>
TextMidRange == <<"M", "i", "d", "-", "R", "a", "n", "g", "e">>
TextPremium == <<"P", "r", "e", "m", "i", "u", "m">>
TextLuxury == <<"L", "u", "x", "u", "r", "y">>

\* the cleaning thresholds and analysis settings of a settings.yaml
AnalysisConfig(top_nh, nsegs) ==
    [NoCfg EXCEPT
        !.keys = {"price", "min_reviews"},
        !.price_min = 10, !.price_max = 1000, !.min_reviews = 1,
        !.segments = SubSeq(<< [min |-> 0, max |-> 100, label |-> TextBudget],
                               [min |-> 100, max |-> 200, label |-> TextMidRange],
                               [min |-> 200, max |-> 500, label |-> TextPremium],
                               [min |-> 500, max |-> 1000, label |-> TextLuxury] >>, 1, nsegs),
        !.high_season_months = <<3, 7>>,
        !.low_season_months = <<12, 1>>,
        !.top_neighborhoods = top_nh]

AnalysisConfigs == {AnalysisConfig(1, 3), AnalysisConfig(4, 4)}

\* a raw listing with the columns the analyzers read
RawAnalysisCols == RawListingCols \cup (AnalysisCols \ {"segment"})

BaseRawListing ==
    [BaseListing EXCEPT !.price = Str(Text150), !.host_id = IntC(1), !.host_name = Str(TextAbc),
                        !.neighbourhood_cleansed = Str(TextA),
                        !.property_type = Str(TextEntire),
                        !.review_scores_rating = Float(Rat(9, 2))]

\* the raw table of the rows given, with the ids 1, 2, ... in row order
RawTableOf(rows) ==
    [cols |-> RawAnalysisCols, rows |-> [i \in 1..Len(rows) |-> [rows[i] EXCEPT !.id = IntC(i)]]]

\* the cleaned table of a raw table
Cleaned(raw) == clean_listings(raw, AnalysisConfig(1, 3), Date(2024, 3, 10)).df

\* rows that differ in the host
HostRows == {[BaseRawListing EXCEPT !.host_id = h] : h \in {NA, IntC(1), IntC(2)}}

\* rows that differ in neighbourhood and price
NeighbourhoodRows ==
    {[BaseRawListing EXCEPT !.neighbourhood_cleansed = n, !.price = Str(p)] :
        n \in {NA, Str(TextA), Str(TextB)}, p \in {Text50, Text150}}

\* rows that differ in the superhost flag and price
SuperhostRows ==
    {[BaseRawListing EXCEPT !.host_is_superhost = f, !.price = Str(p)] :
        f \in {NA, Str(TextT), Str(TextF)}, p \in {Text100, Text200}}

\* n copies of a row
Repeat(row, n) == [i \in 1..n |-> row]

\* twelve listings of eleven hosts
ElevenHosts ==
    [i \in 1..12 |-> [BaseRawListing EXCEPT !.host_id = IntC(IF i = 12 THEN 1 ELSE i)]]

\* four neighbourhoods of one listing each
FourNeighbourhoods ==
    [i \in 1..4 |-> [BaseRawListing EXCEPT !.neighbourhood_cleansed = IntC(78700 + i)]]

\* a neighbourhood of 31 listings, three of them in the Budget segment
ThreeOfThirtyOne ==
    Repeat([BaseRawListing EXCEPT !.price = Str(Text50)], 3) \o Repeat(BaseRawListing, 28)

\* a neighbourhood of 30 listings, three of them in the Budget segment
ThreeOfThirty ==
    Repeat([BaseRawListing EXCEPT !.price = Str(Text50)], 3) \o Repeat(BaseRawListing, 27)

\* a listing of the neighbourhood nh with the 365-day availability a
ListingIn(nh, a) == [BaseRawListing EXCEPT !.neighbourhood_cleansed = nh, !.availability_365 = a]

\* neighbourhoods of three, two and one listings, of mean availability 100, 9 and 50
ThreeSizes ==
    Repeat(ListingIn(Str(TextA), IntC(100)), 3) \o Repeat(ListingIn(Str(TextB), IntC(9)), 2)
        \o <<ListingIn(IntC(78701), IntC(50))>>

\* two neighbourhoods of one listing each, of availability 9 and 100
TwoAvailabilities == <<ListingIn(Str(TextA), IntC(9)), ListingIn(Str(TextB), IntC(100))>>

\* three neighbourhoods, one of them without any availability value
AvailabilityUnknown ==
    <<ListingIn(Str(TextA), IntC(9)), ListingIn(Str(TextB), NA), ListingIn(Str(TextB), NA),
      ListingIn(IntC(78701), IntC(100))>>

\* a host known by two names, who has two listings under one of them, and a host
\* without a name
HostNames ==
    << [BaseRawListing EXCEPT !.host_name = Str(TextA)],
       BaseRawListing, BaseRawListing,
       [BaseRawListing EXCEPT !.host_id = IntC(2), !.host_name = NA] >>

\* two listings at $50, one at $150 and one at $1,000, the upper price bound
PricedToTheBound ==
    << [BaseRawListing EXCEPT !.price = Str(Text50)], [BaseRawListing EXCEPT !.price = Str(Text1000)],
       BaseRawListing, [BaseRawListing EXCEPT !.price = Str(Text50)] >>

LongTables ==
    {ElevenHosts, FourNeighbourhoods, ThreeOfThirtyOne, ThreeOfThirty,
     ThreeSizes, TwoAvailabilities, AvailabilityUnknown, HostNames, PricedToTheBound}

\* the raw tables behind the cleaned tables the analyzers are constructed with
HeldRaws ==
    {RawTableOf(rows) :
        rows \in SeqsUpTo(HostRows, MaxHeldRows + 1) \cup SeqsUpTo(NeighbourhoodRows, MaxHeldRows)
                   \cup SeqsUpTo(SuperhostRows, MaxHeldRows) \cup LongTables}

\* a source without the superhost flag
WithoutSuperhostRaw ==
    LET bare == [BaseRawListing EXCEPT !.host_is_superhost = NA]
        raw == RawTableOf(<<bare, bare>>)
    IN  [raw EXCEPT !.cols = @ \ {"host_is_superhost"}]

\* a raw table without rows
EmptyRaw == RawTableOf(<<>>)

\* most rows of a geo boundary frame
MaxGeoRows == 2

TextLowerA == <<"a">>
TextZ == <<"Z">>
TextZip == <<"7", "8", "7", "0", "1">>
TextPolygon == <<"P", "o", "l", "y", "g", "o", "n">>

GeoNames == {Str(TextA), Str(TextLowerA), Str(TextZ), IntC(78701)}

\* geo frames whose first column is col
GeoFramesOn(col, names, n) ==
    {[present |-> TRUE, cols |-> <<col, "geometry">>,
      rows |-> [i \in 1..Len(ns) |->
                   [c \in GeoCols |-> IF c = col THEN ns[i]
                                      ELSE IF c = "geometry" THEN Str(TextPolygon) ELSE NA]]] :
        ns \in SeqsUpTo(names, n)}

GeoFrames ==
    GeoFramesOn("neighbourhood", GeoNames, MaxGeoRows)
        \cup GeoFramesOn("name", {Str(TextA), Str(TextZip)}, 1) \cup {None}

DefaultGeo ==
    CHOOSE g \in GeoFramesOn("neighbourhood", {Str(TextA)}, 1) : Len(g.rows) = 1

\* the raw tables behind the listing tables the geo frames are joined with
GeoJoinRaws ==
    {RawTableOf(rows) :
        rows \in {<<>>, <<BaseRawListing>>,
                  <<BaseRawListing, [BaseRawListing EXCEPT !.price = Str(Text50)],
                    [BaseRawListing EXCEPT !.neighbourhood_cleansed = Str(TextB)]>>,
                  FourNeighbourhoods}}

\* raw calendar rows that differ in month, weekday and price
SeasonDays == {TextFri, TextMon, TextLeapDay, TextNewYearsEve, TextSatLow}

SeasonRows ==
    {[BaseCalendarRow EXCEPT !.date = Str(d), !.price = p] :
        d \in SeasonDays, p \in {NA, Str(Text0), Str(Text100), Str(Text200)}}

\* the cleaned calendars the SeasonalityAnalyzer is constructed with
SeasonCalendars ==
    {clean_calendar([cols |-> RawCalendarCols, rows |-> rows]).df :
        rows \in SeqsUpTo(SeasonRows, MaxSeasonRows)}

DefaultRawCalendar ==
    [cols |-> RawCalendarCols,
     rows |-> <<[BaseCalendarRow EXCEPT !.price = Str(Text200)],
                [BaseCalendarRow EXCEPT !.date = Str(TextNewYearsEve), !.price = Str(Text100)]>>]

EmptyRawCalendar == [cols |-> RawCalendarCols, rows |-> <<>>]

\* the values of the variables the analyzers do not use
HeldIdle ==
    /\ work = NoTable /\ dfref = "caller" /\ pass = 1 /\ first = NoTable /\ today = NA
    /\ op = NoOp /\ result = NoResult
    /\ FnIdle

\* analyzers constructed over one listing table, one calendar and one geo frame
InitAnalyze ==
    /\ pc = "ready"
    /\ \E raw \in HeldRaws \cup GeoJoinRaws \cup {WithoutSuperhostRaw, EmptyRaw},
          cal \in {DefaultRawCalendar, EmptyRawCalendar} :
          /\ caller = Cleaned(raw)
          /\ calendar = clean_calendar(cal).df
          /\ \/ /\ raw \in HeldRaws \cup {WithoutSuperhostRaw}
                /\ cal = DefaultRawCalendar
                /\ geo = DefaultGeo
                /\ cfg \in AnalysisConfigs
             \/ /\ raw \in GeoJoinRaws
                /\ cal = DefaultRawCalendar
                /\ geo \in GeoFrames
                /\ cfg = AnalysisConfig(1, 3)
             \/ /\ raw = EmptyRaw
                /\ cal = EmptyRawCalendar
                /\ geo = None
                /\ cfg \in AnalysisConfigs
    /\ input = caller
    /\ HeldIdle

\* a SeasonalityAnalyzer constructed over one calendar
InitSeason ==
    /\ pc = "ready"
    /\ caller = NoTable
    /\ geo = None
    /\ calendar \in SeasonCalendars
    /\ cfg = AnalysisConfig(1, 3)
    /\ input = caller
    /\ HeldIdle

-----------------------------------------------------------------------------
(* The analyzer methods as actions. self.df is the table object the analyzers *)
(* were given (caller); work is the frame a method builds for itself           *)

\* Each call overwrites the record of the last one, and every method that builds a
\* frame builds the frame add_segments_to_df builds. A call that follows any other
\* method therefore reaches no state that a first call, or a call after
\* add_segments_to_df, does not reach; those are the calls explored.
CallOpen == op.name \in {"none", "add_segments_to_df"}

\* a method that only reads the held tables
Reads(name, arg, res) ==
    /\ pc = "ready"
    /\ CallOpen
    /\ op' = [name |-> name, arg |-> arg]
    /\ result' = res
    /\ UNCHANGED <<pc, cfg, caller, work, dfref, input, pass, first, today, fnVars, calendar, geo>>

\* df = self.df.copy() without the copy: the held object itself
NoCopyForSegments(ref) == ref

\* df = self.df.copy() in segment_by_price and add_segments_to_df: a new object
CopyForSegments(ref) == "work"

\* a method that starts with df = self.df.copy(); df["segment"] = ...
WritesSegments(name, res) ==
    /\ pc = "ready"
    /\ CallOpen
    /\ op' = [name |-> name, arg |-> NA]
    /\ result' = res
    /\ IF "price" \notin caller.cols THEN UNCHANGED <<caller, work>>
       ELSE IF CopyForSegments("caller") = "caller"
       THEN caller' = WithSegments(caller, cfg.segments) /\ UNCHANGED work
       ELSE work' = WithSegments(caller, cfg.segments) /\ UNCHANGED caller
    /\ UNCHANGED <<pc, cfg, dfref, input, pass, first, today, fnVars, calendar, geo>>

GetTotalActiveListings == Reads("get_total_active_listings", NA, get_total_active_listings(caller))

GetTopHosts == \E n \in {1, 20} : Reads("get_top_hosts", IntC(n), get_top_hosts(caller, n))

GetMarketConcentration == Reads("get_market_concentration", NA, get_market_concentration(caller))

GetAdrByNeighborhood ==
    \E m \in {1, 3} : Reads("get_adr_by_neighborhood", IntC(m), get_adr_by_neighborhood(caller, m))

GetListingDensity == Reads("get_listing_density", NA, get_listing_density(caller))

GetMarketSaturationScore ==
    Reads("get_market_saturation_score", NA, get_market_saturation_score(caller))

GetPriceHeatmapData == Reads("get_price_heatmap_data", NA, get_price_heatmap_data(caller, geo))

\* the names looked up: two that listings carry and one that none carries
ProfileNames == {Str(TextA), Str(TextB), Str(TextZ)}

GetNeighborhoodProfile ==
    \E name \in ProfileNames :
        Reads("get_neighborhood_profile", name, get_neighborhood_profile(caller, name))

SegmentByPrice == WritesSegments("segment_by_price", segment_by_price(caller, cfg.segments))

AddSegmentsToDf == WritesSegments("add_segments_to_df", add_segments_to_df(caller, cfg.segments))

GetSuperhostPremium == Reads("get_superhost_premium", NA, get_superhost_premium(caller))

IdentifyMarketGaps == WritesSegments("identify_market_gaps", identify_market_gaps(caller, cfg))

GetPriceByMonth == Reads("get_price_by_month", NA, get_price_by_month(calendar))

IdentifyPeakSeason == Reads("identify_peak_season", NA, identify_peak_season(calendar, cfg))

GetWeekendVsWeekdayPricing ==
    Reads("get_weekend_vs_weekday_pricing", NA, get_weekend_vs_weekday_pricing(calendar))

GetAvailabilityByMonth ==
    Reads("get_availability_by_month", NA, get_availability_by_month(calendar))

GetPriceByDayOfWeek == Reads("get_price_by_day_of_week", NA, get_price_by_day_of_week(calendar))

GetAdrByRoomType == Reads("get_adr_by_room_type", NA, get_adr_by_room_type(caller))

GetPriceDistribution == Reads("get_price_distribution", NA, get_price_distribution(caller))

GetSupplyByPropertyType ==
    Reads("get_supply_by_property_type", NA, get_supply_by_property_type(caller))

GetSupplyByRoomType == Reads("get_supply_by_room_type", NA, get_supply_by_room_type(caller))

GetRatingDistribution == Reads("get_rating_distribution", NA, get_rating_distribution(caller))

GetSummary == Reads("get_summary", NA, get_summary(caller))

\* get_price_vs_rating() and get_amenity_analysis() build their frame with
\* add_segments_to_df()
GetPriceVsRating == WritesSegments("get_price_vs_rating", get_price_vs_rating(caller, cfg.segments))

GetAmenityAnalysis ==
    IF "amenities_list" \in caller.cols
    THEN WritesSegments("get_amenity_analysis", get_amenity_analysis(caller, cfg.segments))
    ELSE Reads("get_amenity_analysis", NA, get_amenity_analysis(caller, cfg.segments))

NextSeason ==
    \/ GetPriceByMonth \/ IdentifyPeakSeason \/ GetWeekendVsWeekdayPricing
    \/ GetAvailabilityByMonth \/ GetPriceByDayOfWeek

NextAnalyze ==
    \/ GetTotalActiveListings \/ GetTopHosts \/ GetMarketConcentration
    \/ GetAdrByNeighborhood \/ GetListingDensity \/ GetMarketSaturationScore
    \/ GetPriceHeatmapData \/ GetNeighborhoodProfile
    \/ SegmentByPrice \/ AddSegmentsToDf \/ GetSuperhostPremium \/ IdentifyMarketGaps
    \/ GetAdrByRoomType \/ GetPriceDistribution \/ GetSupplyByPropertyType
    \/ GetSupplyByRoomType \/ GetRatingDistribution \/ GetSummary
    \/ GetPriceVsRating \/ GetAmenityAnalysis
    \/ NextSeason

SpecAnalyze == InitAnalyze /\ [][NextAnalyze]_vars

SpecSeason == InitSeason /\ [][NextSeason]_vars

-----------------------------------------------------------------------------
(* C11: get_market_concentration *)

\* the host ids present in the held table
HostIds == {input.rows[i].host_id : i \in 1..Len(input.rows)} \ {NA}

\* the listings of the hosts in hs
ListingsOf(hs) == Cardinality({i \in 1..Len(input.rows) : input.rows[i].host_id \in hs})

\* the pairs of listings that have the same host: the sum over hosts of the squared count
SameHostPairs ==
    Cardinality({p \in (1..Len(input.rows)) \X (1..Len(input.rows)) :
                    /\ input.rows[p[1]].host_id = input.rows[p[2]].host_id
                    /\ ~IsNA(input.rows[p[1]].host_id)})

\* the most listings any ten hosts hold together
TenLargest ==
    LET held == {ListingsOf(hs) : hs \in {s \in SUBSET HostIds : Cardinality(s) <= 10}}
    IN  CHOOSE m \in held : \A k \in held : k <= m

ConcentrationCalled == op.name = "get_market_concentration"

\* C11: get_market_concentration returns the sum over hosts of the squared percentage
\* share (listing count / len(df) * 100) as hhi, which is 5000 for two hosts of equal
\* count holding every listing, 10000 for one host holding every listing and always
\* within 0..10000; top_10_host_share_pct is the sum of the ten largest shares and
\* unique_hosts the number of distinct host ids.
C11_HHI ==
    ConcentrationCalled =>
        LET total == Len(input.rows)
        IN  /\ result.exc = "none"
            /\ result.unique_hosts = Cardinality(HostIds)
            /\ result.hhi =
                   Float(IF total = 0 THEN Rat(0, 1) ELSE Rat(10000 * SameHostPairs, total * total))
            /\ result.top_10_host_share_pct =
                   Float(IF total = 0 THEN Rat(0, 1) ELSE Rat(100 * TenLargest, total))
            /\ RatLe(Rat(0, 1), RatOf(result.hhi)) /\ RatLe(RatOf(result.hhi), Rat(10000, 1))
            /\ (Cardinality(HostIds) = 1 /\ ListingsOf(HostIds) = total)
                   => result.hhi = Float(Rat(10000, 1))
            /\ (/\ Cardinality(HostIds) = 2
                /\ \A h \in HostIds : 2 * ListingsOf({h}) = total)
                   => result.hhi = Float(Rat(5000, 1))

\* eleven hosts, so that the ten largest shares leave one host out
C11_Witness ==
    /\ ConcentrationCalled
    /\ result.unique_hosts = 11
    /\ RatLt(RatOf(result.top_10_host_share_pct), Rat(100, 1))
    /\ RatLt(Rat(0, 1), RatOf(result.hhi))

\* two hosts holding half of the listings each
C11_TwoEqualHosts ==
    /\ ConcentrationCalled
    /\ Cardinality(HostIds) = 2
    /\ \A h \in HostIds : 2 * ListingsOf({h}) = Len(input.rows)

-----------------------------------------------------------------------------
(* C12: seasonal and weekend premiums *)

PeakSeasonCalled == op.name = "identify_peak_season"

WeekendCalled == op.name = "get_weekend_vs_weekday_pricing"

\* a mean that is zero or undefined
ZeroOrUndefined(x) == IsNA(x) \/ (x.t # "inf" /\ x.n = 0)

\* C12: identify_peak_season returns seasonal_premium_pct = (high - low) / low * 100 and
\* exactly 0 when the low-season mean is zero or undefined; get_weekend_vs_weekday_pricing
\* returns weekend_premium_pct = 0 when the weekday mean is zero or undefined; neither
\* returns an undefined premium or raises.
C12_PremiumNeverUndefined ==
    /\ PeakSeasonCalled =>
           /\ result.exc = "none"
           /\ ~IsNA(result.seasonal_premium_pct)
           /\ ZeroOrUndefined(result.low_season_avg_price)
                  => NumEq(result.seasonal_premium_pct, IntC(0))
    /\ WeekendCalled =>
           /\ result.exc = "none"
           /\ ~IsNA(result.weekend_premium_pct)
           /\ ZeroOrUndefined(result.weekday_avg) => NumEq(result.weekend_premium_pct, IntC(0))

\* C12, the part that holds: neither method raises; with both means defined the premium
\* is (a - b) / b * 100, or 0 when b is zero; a high mean of 200 over a low mean of 100
\* gives 100.
C12_DefinedMeans ==
    /\ PeakSeasonCalled =>
           /\ result.exc = "none"
           /\ (~IsNA(result.high_season_avg_price) /\ ~IsNA(result.low_season_avg_price)) =>
                  /\ ~IsNA(result.seasonal_premium_pct)
                  /\ result.seasonal_premium_pct =
                         IF result.low_season_avg_price.n = 0 THEN IntC(0)
                         ELSE NumMul(NumDiv(NumSub(result.high_season_avg_price,
                                                   result.low_season_avg_price),
                                            result.low_season_avg_price), IntC(100))
           /\ (/\ result.high_season_avg_price = Float(Rat(200, 1))
               /\ result.low_season_avg_price = Float(Rat(100, 1)))
                  => NumEq(result.seasonal_premium_pct, IntC(100))
    /\ WeekendCalled =>
           /\ result.exc = "none"
           /\ (~IsNA(result.weekend_avg) /\ ~IsNA(result.weekday_avg)) =>
                  /\ ~IsNA(result.weekend_premium_pct)
                  /\ result.weekday_avg.n = 0 => result.weekend_premium_pct = IntC(0)

\* a low-season mean that is undefined and a premium that is undefined with it
C12_UndefinedPremium ==
    /\ PeakSeasonCalled
    /\ IsNA(result.low_season_avg_price)
    /\ IsNA(result.seasonal_premium_pct)

\* a weekday mean that is undefined and a premium that is undefined with it
C12_UndefinedWeekendPremium ==
    /\ WeekendCalled
    /\ IsNA(result.weekday_avg)
    /\ ~IsNA(result.weekend_avg)
    /\ IsNA(result.weekend_premium_pct)

\* a low-season mean of zero and a premium of 0
C12_ZeroLowMean ==
    /\ PeakSeasonCalled
    /\ ~IsNA(result.low_season_avg_price) /\ result.low_season_avg_price.n = 0
    /\ ~IsNA(result.high_season_avg_price)
    /\ result.seasonal_premium_pct = IntC(0)

-----------------------------------------------------------------------------
(* C13: get_neighborhood_profile *)

ProfileCalled == op.name = "get_neighborhood_profile"

\* the listings of the held table whose neighbourhood equals the name looked up
ProfileMatches ==
    {i \in 1..Len(input.rows) : input.rows[i].neighbourhood_cleansed = op.arg}

\* C13: get_neighborhood_profile never raises; for a name that no listing carries
\* (on the empty table too) it returns the not-found mapping, which has an error entry
\* and no metric; for a name that some listing carries it returns a profile with
\* total_listings >= 1 and no error entry.
C13_NotFoundIsExplicit ==
    ProfileCalled =>
        /\ result.exc = "none"
        /\ ProfileMatches = {} =>
               /\ result.kind = "not_found"
               /\ DOMAIN result = {"exc", "kind", "error"}
               /\ result.error = NotFound(op.arg).error
        /\ ProfileMatches # {} =>
               /\ result.kind = "profile"
               /\ "error" \notin DOMAIN result
               /\ result.total_listings = Cardinality(ProfileMatches)
               /\ result.total_listings >= 1

\* a name no listing carries, looked up in a table that has listings
C13_Witness ==
    /\ ProfileCalled
    /\ result.kind = "not_found"
    /\ Len(input.rows) > 0

\* a name no listing carries, looked up in the empty table
C13_EmptyTable == ProfileCalled /\ result.kind = "not_found" /\ Len(input.rows) = 0

\* a name that some but not all listings carry
C13_Found ==
    /\ ProfileCalled
    /\ result.kind = "profile"
    /\ result.total_listings < Len(input.rows)

-----------------------------------------------------------------------------
(* C14: get_superhost_premium *)

SuperhostCalled == op.name = "get_superhost_premium"

\* the listings of the held table whose superhost flag is flag
Flagged(flag) ==
    IF "is_superhost" \notin input.cols THEN {}
    ELSE {i \in 1..Len(input.rows) : input.rows[i].is_superhost = BoolC(flag)}

\* the mean price of the listings in idx
MeanPriceOf(idx) == MeanCell(Column(SelectRows(input.rows, idx), "price"))

\* what get_superhost_premium returns when both groups have listings
PremiumAsSpecified ==
    /\ result.kind = "premium"
    /\ result.superhost_count = Cardinality(Flagged(TRUE))
    /\ result.regular_count = Cardinality(Flagged(FALSE))
    /\ result.price_premium_pct =
           NumMul(NumDiv(NumSub(MeanPriceOf(Flagged(TRUE)), MeanPriceOf(Flagged(FALSE))),
                         MeanPriceOf(Flagged(FALSE))), IntC(100))

\* the explicit insufficient-data result, which has no numeric entry
ExplicitlyInsufficient ==
    /\ result.kind = "note"
    /\ DOMAIN result = {"exc", "kind", "note"}
    /\ result.note = InsufficientData.note

\* C14: get_superhost_premium returns the explicit insufficient-data result, without a
\* price_premium_pct, whenever the superhost group or the regular group has no listing
\* (the superhost column not being there at all included), and
\* (superhost mean - regular mean) / regular mean * 100 when both have listings.
C14_InsufficientDataIsExplicit ==
    SuperhostCalled =>
        /\ result.exc = "none"
        /\ IF Flagged(TRUE) = {} \/ Flagged(FALSE) = {}
           THEN ExplicitlyInsufficient
           ELSE PremiumAsSpecified

\* C14, the part that holds: with the superhost column in the table the result is as
\* specified; without the column the result is the mapping without entries.
C14_WhenColumnPresent ==
    SuperhostCalled =>
        /\ result.exc = "none"
        /\ "price_premium_pct" \in DOMAIN result
               <=> (Flagged(TRUE) # {} /\ Flagged(FALSE) # {})
        /\ IF "is_superhost" \notin input.cols THEN result = EmptyMapping
           ELSE IF Flagged(TRUE) = {} \/ Flagged(FALSE) = {} THEN ExplicitlyInsufficient
           ELSE PremiumAsSpecified

\* a table without the superhost column, answered with the mapping without entries
C14_ColumnAbsent ==
    /\ SuperhostCalled
    /\ "is_superhost" \notin input.cols
    /\ Len(input.rows) > 0
    /\ result = EmptyMapping

\* listings that are all regular, answered with the note
C14_AllRegular ==
    /\ SuperhostCalled
    /\ Flagged(FALSE) # {} /\ Flagged(TRUE) = {}
    /\ result.kind = "note"

\* both groups, with a premium that is not zero
C14_BothGroups ==
    /\ SuperhostCalled
    /\ result.kind = "premium"
    /\ result.price_premium_pct.n # 0

-----------------------------------------------------------------------------
(* C15: clean_listings over inputs and configurations with a structural defect *)

\* most rows of a raw table that may lack a required column
MaxStructRows == 2

\* a raw table with the columns in missing left out
WithoutCols(rows, missing) ==
    [cols |-> RawListingCols \ missing,
     rows |-> [i \in 1..Len(rows) |->
                  [c \in AllCols |-> IF c \in missing THEN NA ELSE rows[i][c]]]]

StructRows == {BaseListing, [BaseListing EXCEPT !.id = IntC(2), !.price = Str(Text1000)]}

\* raw tables that have every required column or lack one of them
StructTables ==
    {WithoutCols(rows, missing) :
        rows \in SeqsUpTo(StructRows, MaxStructRows),
        missing \in {{}} \cup {{c} : c \in CriticalCols}}

\* a configuration with price bounds, one with the bounds inverted and one without
\* the price entry
StructConfigs ==
    {[NoCfg EXCEPT !.keys = {"price", "min_reviews"},
                   !.price_min = 50, !.price_max = 1000, !.min_reviews = 3],
     [NoCfg EXCEPT !.keys = {"price", "min_reviews"},
                   !.price_min = 1000, !.price_max = 50, !.min_reviews = 3],
     [NoCfg EXCEPT !.keys = {"min_reviews"}, !.min_reviews = 3]}

InitStruct ==
    /\ pc = "start"
    /\ cfg \in StructConfigs
    /\ caller \in StructTables
    /\ input = caller
    /\ work = NoTable
    /\ dfref = "caller"
    /\ pass = 1
    /\ first = NoTable
    /\ today = Date(2024, 3, 10)
    /\ FnIdle
    /\ AnalyzersIdle

SpecStruct == InitStruct /\ [][NextListings]_vars

\* the input lacks a required column
RequiredColumnAbsent == ~(CriticalCols \subseteq input.cols)

\* the configuration has no price bounds
PriceBoundsMissing == "price" \notin cfg.keys

\* the configured price bounds are inverted
PriceBoundsInverted == "price" \in cfg.keys /\ cfg.price_min > cfg.price_max

\* C15: clean_listings fails, and returns no cleaned table, when a required column (id,
\* price, latitude, longitude) is absent from the input, when the configuration has no
\* price bounds, and when the configured price bounds are inverted.
C15_StructuralErrorsRaise ==
    (RequiredColumnAbsent \/ PriceBoundsMissing \/ PriceBoundsInverted) => pc # "done"

\* C15, the part that holds: without the id or the price column, and without price
\* bounds in the configuration, clean_listings returns no table.
C15_RaisedDefects ==
    ("id" \notin input.cols \/ "price" \notin input.cols \/ PriceBoundsMissing) => pc # "done"

\* a call that raised on the missing id column
C15_IdAbsentRaised == pc = "raised" /\ "id" \notin input.cols /\ Len(input.rows) > 0

\* a call that raised on the missing price bounds, the input being complete
C15_BoundsMissingRaised ==
    pc = "raised" /\ PriceBoundsMissing /\ ~RequiredColumnAbsent /\ Len(input.rows) > 0

\* a table without the latitude column, cleaned and returned with its rows
C15_LatitudeAbsentCleaned ==
    /\ pc = "done" /\ pass = 1
    /\ "latitude" \notin input.cols
    /\ ~PriceBoundsInverted
    /\ Len(DF.rows) > 0

\* inverted bounds, answered with a table without rows
C15_InvertedBoundsCleaned ==
    /\ pc = "done" /\ pass = 1
    /\ PriceBoundsInverted
    /\ ~RequiredColumnAbsent
    /\ Len(input.rows) > 0 /\ Len(DF.rows) = 0

-----------------------------------------------------------------------------
(* C16: the analyzer methods are pure *)

\* what the method of the last call returns on analyzers constructed afresh over the
\* listing table the analyzers were given
FreshResult ==
    CASE op.name = "none" -> NoResult
      [] op.name = "get_total_active_listings" -> get_total_active_listings(input)
      [] op.name = "get_top_hosts" -> get_top_hosts(input, op.arg.n)
      [] op.name = "get_market_concentration" -> get_market_concentration(input)
      [] op.name = "get_adr_by_room_type" -> get_adr_by_room_type(input)
      [] op.name = "get_price_distribution" -> get_price_distribution(input)
      [] op.name = "get_supply_by_property_type" -> get_supply_by_property_type(input)
      [] op.name = "get_supply_by_room_type" -> get_supply_by_room_type(input)
      [] op.name = "get_rating_distribution" -> get_rating_distribution(input)
      [] op.name = "get_summary" -> get_summary(input)
      [] op.name = "get_adr_by_neighborhood" -> get_adr_by_neighborhood(input, op.arg.n)
      [] op.name = "get_listing_density" -> get_listing_density(input)
      [] op.name = "get_market_saturation_score" -> get_market_saturation_score(input)
      [] op.name = "get_price_heatmap_data" -> get_price_heatmap_data(input, geo)
      [] op.name = "get_neighborhood_profile" -> get_neighborhood_profile(input, op.arg)
      [] op.name = "segment_by_price" -> segment_by_price(input, cfg.segments)
      [] op.name = "add_segments_to_df" -> add_segments_to_df(input, cfg.segments)
      [] op.name = "get_price_vs_rating" -> get_price_vs_rating(input, cfg.segments)
      [] op.name = "get_amenity_analysis" -> get_amenity_analysis(input, cfg.segments)
      [] op.name = "get_superhost_premium" -> get_superhost_premium(input)
      [] op.name = "identify_market_gaps" -> identify_market_gaps(input, cfg)
      [] op.name = "get_price_by_month" -> get_price_by_month(calendar)
      [] op.name = "get_availability_by_month" -> get_availability_by_month(calendar)
      [] op.name = "identify_peak_season" -> identify_peak_season(calendar, cfg)
      [] op.name = "get_weekend_vs_weekday_pricing" -> get_weekend_vs_weekday_pricing(calendar)
      [] op.name = "get_price_by_day_of_week" -> get_price_by_day_of_week(calendar)

\* the held listing table is the table the analyzers were given, without a segment
\* column, and the last call returned what a first call on fresh analyzers returns
HeldTableIntact ==
    /\ caller = input
    /\ "segment" \notin caller.cols
    /\ result = FreshResult

\* no call changes the calendar, the geo frame or the configuration
HeldInputsKept == calendar' = calendar /\ geo' = geo /\ cfg' = cfg

\* C16: after any sequence of analyzer calls the listing table, the calendar and the
\* configuration the analyzers hold are unchanged (no 'segment' column is added to the
\* held table), and each call returns what it returns as a first call on fresh analyzers.
C16_AnalyzersPure == []HeldTableIntact /\ [][HeldInputsKept]_vars

\* a method that only reads, called after add_segments_to_df built its frame with the
\* segment column
C16_Witness ==
    /\ op.name = "get_market_concentration"
    /\ "segment" \in work.cols
    /\ Len(work.rows) > 0
    /\ caller = input
    /\ result.unique_hosts > 0

-----------------------------------------------------------------------------
(* C17: the empty listing table *)

\* the analyzers hold the cleaned table of a raw table without rows
EmptyHeld == Len(input.rows) = 0

\* the methods whose result is a table of listings, hosts, neighbourhoods or segments
TableMethods ==
    {"get_top_hosts", "get_adr_by_room_type", "get_supply_by_property_type",
     "get_supply_by_room_type", "get_adr_by_neighborhood", "get_listing_density",
     "get_market_saturation_score", "segment_by_price", "get_price_vs_rating",
     "identify_market_gaps"}

\* C17: cleaning a listing table without rows returns a table without rows and does
\* not raise, and on that table no analyzer method raises; hhi and the top-10 share
\* are 0 with 0 unique hosts, the total is 0, the segment summary, the top hosts, the
\* density and saturation tables have no rows and the list of market gaps is empty.
C17_EmptyInput ==
    /\ LET out == clean_listings(EmptyRaw, cfg, Date(2024, 3, 10))
       IN  out.exc = "none" /\ out.df.rows = <<>> /\ RawListingCols \subseteq out.df.cols
    /\ EmptyHeld =>
           /\ result.exc = "none" \/ (op.name = "get_price_heatmap_data" /\ ~geo.present)
           /\ op.name = "get_market_concentration" =>
                  /\ result.hhi = Float(Rat(0, 1))
                  /\ result.top_10_host_share_pct = Float(Rat(0, 1))
                  /\ result.unique_hosts = 0
           /\ op.name = "get_total_active_listings" => result.v = 0
           /\ op.name \in TableMethods => result.rows = <<>>
           /\ op.name = "add_segments_to_df" => result.df.rows = <<>>
           /\ op.name = "get_neighborhood_profile" => result.kind = "not_found"
           /\ op.name = "get_superhost_premium" => result.kind = "note"
           /\ op.name = "get_summary" => result.total_listings.v = 0 /\ result.unique_hosts = 0
           /\ op.name = "get_amenity_analysis" =>
                  result.overall = <<>> /\ result.total_unique = 0

\* the concentration of the empty table
C17_Witness ==
    /\ EmptyHeld
    /\ op.name = "get_market_concentration"
    /\ result.hhi = Float(Rat(0, 1))
    /\ result.unique_hosts = 0

\* the market gaps of the empty table
C17_NoGaps == EmptyHeld /\ op.name = "identify_market_gaps" /\ result.rows = <<>>

-----------------------------------------------------------------------------
(* C18: the fill of bedrooms and beds by handle_missing_values *)

\* most rows of a raw table that varies room type, bedrooms and beds
MaxImputeRows == 2

TextPrivate == <<"P">>

\* rows of two room types and of no room type, with and without bedrooms; one row
\* that has beds, and one that the critical-field drop removes
ImputeRows ==
    {[BaseListing EXCEPT !.room_type = rb[1], !.bedrooms = rb[2]] :
        rb \in {<<Str(TextEntire), NA>>, <<Str(TextEntire), IntC(1)>>, <<Str(TextEntire), IntC(4)>>,
                <<Str(TextPrivate), NA>>, <<Str(TextPrivate), IntC(5)>>, <<NA, NA>>}}
      \cup {[BaseListing EXCEPT !.bedrooms = NA, !.beds = IntC(2)],
            [BaseListing EXCEPT !.bedrooms = IntC(5), !.beds = IntC(6), !.price = NA]}

\* one room type with bedrooms missing, 1 and 4, and another with 5 bedrooms
MixedRoomTypes ==
    << [BaseListing EXCEPT !.bedrooms = NA],
       [BaseListing EXCEPT !.bedrooms = IntC(1)],
       [BaseListing EXCEPT !.bedrooms = IntC(4)],
       [BaseListing EXCEPT !.room_type = Str(TextPrivate), !.bedrooms = IntC(5)] >>

\* raw tables of these rows, with the ids 1, 2, ... in row order
ImputeTables ==
    {[cols |-> RawListingCols, rows |-> [i \in 1..Len(rows) |-> [rows[i] EXCEPT !.id = IntC(i)]]] :
        rows \in SeqsUpTo(ImputeRows, MaxImputeRows)
                   \cup {MixedRoomTypes, SubSeq(MixedRoomTypes, 1, 3), SubSeq(MixedRoomTypes, 2, 4),
                         <<MixedRoomTypes[1], MixedRoomTypes[3], MixedRoomTypes[4]>>}}

InitImpute ==
    /\ pc = "start"
    /\ cfg = [NoCfg EXCEPT !.keys = {"price", "min_reviews"},
                           !.price_min = 50, !.price_max = 1000, !.min_reviews = 3]
    /\ caller \in ImputeTables
    /\ input = caller
    /\ work = NoTable
    /\ dfref = "caller"
    /\ pass = 1
    /\ first = NoTable
    /\ today = Date(2024, 3, 10)
    /\ FnIdle
    /\ AnalyzersIdle

SpecImpute == InitImpute /\ [][NextListings]_vars

\* the missing-value stage has just returned
MissingValuesHandled == pc = "filter"

\* the rows handed to the missing-value stage that have every critical field
Survivors ==
    LET before == NormalizePrice(remove_duplicates(input).df).df.rows
    IN  SelectRows(before, {i \in 1..Len(before) : \A c \in CriticalCols : Present(before[i][c])})

\* the values of col among the survivors of room type rt, missing ones left out
PeerValues(col, rt) ==
    LET peers == SelectRows(Survivors, {i \in 1..Len(Survivors) :
                                Survivors[i].room_type = rt /\ Present(Survivors[i][col])})
    IN  [i \in 1..Len(peers) |-> RatOf(peers[i][col])]

\* C18: after the missing-value stage no row has a missing bedrooms or beds; a value
\* that was missing is the median of the column over the surviving rows of the same
\* room type, or 1 when those rows have no value or the row has no room type; a
\* value that was not missing is unchanged.
C18_BedroomsImputed ==
    MissingValuesHandled =>
        /\ Len(DF.rows) = Len(Survivors)
        /\ \A i \in 1..Len(DF.rows) : \A col \in {"bedrooms", "beds"} :
               LET was == Survivors[i][col]
                   now == DF.rows[i][col]
                   rt == Survivors[i].room_type
               IN  /\ Present(now)
                   /\ Present(was) => now = was
                   /\ ~Present(was) =>
                          NumEq(now, IF ~Present(rt) \/ PeerValues(col, rt) = <<>>
                                     THEN IntC(1)
                                     ELSE Float(Median(PeerValues(col, rt))))

\* a missing bedrooms value filled with the median 5/2 of the 1 and 4 of its room
\* type, next to a row of another room type whose 5 bedrooms do not enter that median
C18_Witness ==
    /\ MissingValuesHandled /\ pass = 1
    /\ Len(DF.rows) = 4
    /\ \E i \in 1..4 :
           /\ ~Present(Survivors[i].bedrooms)
           /\ NumEq(DF.rows[i].bedrooms, Float(Rat(5, 2)))
    /\ \E i \in 1..4 : DF.rows[i].room_type = Str(TextPrivate) /\ Present(Survivors[i].bedrooms)

\* a room type without any bedrooms value: the fill is 1
C18_FallbackToOne ==
    /\ MissingValuesHandled /\ pass = 1
    /\ \E i \in 1..Len(DF.rows) :
           /\ DF.rows[i].room_type = Str(TextPrivate)
           /\ ~Present(Survivors[i].bedrooms)
           /\ NumEq(DF.rows[i].bedrooms, IntC(1))
    /\ \E i \in 1..Len(DF.rows) : Present(Survivors[i].bedrooms)

\* a row dropped for its missing price, whose bedrooms do not enter the median
C18_DroppedRowLeftOut ==
    /\ MissingValuesHandled /\ pass = 1
    /\ Len(DF.rows) < Len(input.rows)
    /\ \E i \in 1..Len(DF.rows) :
           ~Present(Survivors[i].bedrooms) /\ NumEq(DF.rows[i].bedrooms, IntC(1))

-----------------------------------------------------------------------------
(* C19: the market gaps *)

GapsCalled == op.name = "identify_market_gaps" /\ result.exc = "none"

\* the neighbourhoods of the segmented table
SegmentedNeighbourhoods ==
    {work.rows[i].neighbourhood_cleansed : i \in 1..Len(work.rows)} \ {NA}

ListingsIn(nh) ==
    Cardinality({i \in 1..Len(work.rows) : work.rows[i].neighbourhood_cleansed = nh})

ListingsInSegment(nh, label) ==
    Cardinality({i \in 1..Len(work.rows) :
                    /\ work.rows[i].neighbourhood_cleansed = nh
                    /\ work.rows[i].segment = Str(label)})

\* fewer than 3 listings, or less than 10% of the neighbourhood's listings
Underserved(nh, label) ==
    \/ ListingsInSegment(nh, label) < 3
    \/ ListingsInSegment(nh, label) * 100 < 10 * ListingsIn(nh)

\* the choices of the top_neighborhoods largest neighbourhoods
LargestNeighbourhoods ==
    LET all == SegmentedNeighbourhoods
        k == IF cfg.top_neighborhoods < Cardinality(all) THEN cfg.top_neighborhoods
             ELSE Cardinality(all)
    IN  {top \in SUBSET all :
            /\ Cardinality(top) = k
            /\ \A a \in top, b \in all \ top : ListingsIn(a) >= ListingsIn(b)}

ConfiguredLabels == {cfg.segments[i].label : i \in 1..Len(cfg.segments)}

\* the pooled candidates over the neighbourhoods of top
PooledGaps(top) ==
    {pair \in top \X ConfiguredLabels : Underserved(pair[1], pair[2])}

ReturnedGaps == {<<result.rows[i].neighbourhood, result.rows[i].segment>> : i \in 1..Len(result.rows)}

C19_FlaggedByShare ==
    /\ GapsCalled
    /\ \E i \in 1..Len(result.rows) : result.rows[i].current_listings >= 3

\* a segment of three listings with exactly 10% of the neighbourhood, not flagged
C19_TenPercentKept ==
    /\ GapsCalled
    /\ \E nh \in SegmentedNeighbourhoods, label \in ConfiguredLabels :
           /\ ListingsInSegment(nh, label) = 3
           /\ ListingsIn(nh) = 30
           /\ <<nh, label>> \notin ReturnedGaps

\* a neighbourhood outside the largest top_neighborhoods, with no entry
C19_SmallerNeighbourhoodSkipped ==
    /\ GapsCalled
    /\ \E nh \in SegmentedNeighbourhoods :
           /\ \A i \in 1..Len(result.rows) : result.rows[i].neighbourhood # nh
           /\ \E label \in ConfiguredLabels : Underserved(nh, label)

-----------------------------------------------------------------------------
(* C20: the price heatmap *)

HeatmapCalled == op.name = "get_price_heatmap_data"

\* the column of the boundaries the join is made on
BoundaryColumn ==
    IF \E i \in 1..Len(geo.cols) : geo.cols[i] = "neighbourhood" THEN "neighbourhood"
    ELSE geo.cols[1]

\* the listings whose neighbourhood is written as the name of boundary g
ListingsNamed(g) ==
    {k \in 1..Len(input.rows) :
        /\ input.rows[k].neighbourhood_cleansed # NA
        /\ PyStr(input.rows[k].neighbourhood_cleansed) = PyStr(geo.rows[g][BoundaryColumn])}

\* C20: get_price_heatmap_data raises ValueError when the analyzer holds no geo
\* boundaries; otherwise the result has one record per boundary, in the order of
\* the boundaries, a boundary whose name is the neighbourhood of no listing has a
\* missing avg_price, and a boundary whose name is the neighbourhood of some
\* listing has the mean price of the listings of that neighbourhood
C20_HeatmapLeftJoin ==
    HeatmapCalled =>
        IF ~geo.present THEN result.exc = "ValueError"
        ELSE /\ result.exc = "none"
             /\ Len(result.rows) = Len(geo.rows)
             /\ \A g \in 1..Len(geo.rows) :
                    /\ result.rows[g].boundary.geometry = geo.rows[g].geometry
                    /\ result.rows[g].boundary[BoundaryColumn].s
                           = PyStr(geo.rows[g][BoundaryColumn])
                    /\ ListingsNamed(g) = {} => result.rows[g].avg_price = NA
                    /\ ListingsNamed(g) # {} =>
                           result.rows[g].avg_price = MeanPriceOf(ListingsNamed(g))

\* two boundaries, one matched by two listings of different price, one by none
C20_Witness ==
    /\ HeatmapCalled /\ geo.present /\ result.exc = "none"
    /\ \E g, h \in 1..Len(geo.rows) :
           /\ Cardinality(ListingsNamed(g)) = 2
           /\ result.rows[g].avg_price = Float(Rat(100, 1))
           /\ ListingsNamed(h) = {}
           /\ result.rows[h].avg_price = NA
    /\ \E k \in 1..Len(input.rows) : \A g \in 1..Len(geo.rows) : k \notin ListingsNamed(g)

\* no geo boundaries were given
C20_NoBoundaries == HeatmapCalled /\ ~geo.present /\ result.exc = "ValueError"

\* a boundary named by a number matched with a neighbourhood read as text, or the reverse
C20_MatchedAsText ==
    /\ HeatmapCalled /\ geo.present /\ result.exc = "none"
    /\ \E g \in 1..Len(geo.rows) : \E k \in ListingsNamed(g) :
           /\ input.rows[k].neighbourhood_cleansed # geo.rows[g][BoundaryColumn]
           /\ result.rows[g].avg_price # NA

\* boundaries without a "neighbourhood" column, joined on their first column
C20_FirstColumn ==
    /\ HeatmapCalled /\ geo.present /\ result.exc = "none"
    /\ BoundaryColumn = "name"
    /\ \E g \in 1..Len(geo.rows) : result.rows[g].avg_price # NA

-----------------------------------------------------------------------------
(* C21: the names the heatmap join matches *)

HeatmapJoined == HeatmapCalled /\ geo.present /\ result.exc = "none"

\* the listings whose neighbourhood is the name of boundary g up to letter case
ListingsNamedIgnoringCase(g) ==
    {k \in 1..Len(input.rows) :
        /\ input.rows[k].neighbourhood_cleansed # NA
        /\ TextLower(PyStr(input.rows[k].neighbourhood_cleansed))
               = TextLower(PyStr(geo.rows[g][BoundaryColumn]))}

\* C21: the heatmap join matches a boundary with the listings whose neighbourhood
\* is the boundary's name written as text and compared without regard to letter
\* case: such a boundary carries the mean price of those listings
C21_CaseAndTypeNormalized ==
    HeatmapJoined =>
        \A g \in 1..Len(geo.rows) :
            ListingsNamedIgnoringCase(g) # {} =>
                result.rows[g].avg_price = MeanPriceOf(ListingsNamedIgnoringCase(g))

\* what the join does: a number and a text with the same digits are matched, names
\* that differ in letter case are not
C21_TypeNormalizedOnly ==
    HeatmapJoined =>
        \A g \in 1..Len(geo.rows) :
            LET name == geo.rows[g][BoundaryColumn]
                exact == {k \in ListingsNamedIgnoringCase(g) :
                             PyStr(input.rows[k].neighbourhood_cleansed) = PyStr(name)}
            IN  /\ (\E k \in exact : input.rows[k].neighbourhood_cleansed.t # name.t)
                       => result.rows[g].avg_price = MeanPriceOf(exact)
                /\ exact = {} => result.rows[g].avg_price = NA

\* the boundary "a" next to listings of the neighbourhood "A": no price
C21_CaseMismatch ==
    /\ HeatmapJoined
    /\ \E g \in 1..Len(geo.rows) :
           /\ geo.rows[g][BoundaryColumn] = Str(TextLowerA)
           /\ \E k \in ListingsNamedIgnoringCase(g) :
                  input.rows[k].neighbourhood_cleansed = Str(TextA)
           /\ result.rows[g].avg_price = NA

\* the boundary 78701 (a number) joined with listings labelled "78701", or the reverse
C21_NumberMatchesText ==
    /\ HeatmapJoined
    /\ \E g \in 1..Len(geo.rows) : \E k \in 1..Len(input.rows) :
           /\ PyStr(geo.rows[g][BoundaryColumn]) = TextZip
           /\ PyStr(input.rows[k].neighbourhood_cleansed) = TextZip
           /\ input.rows[k].neighbourhood_cleansed.t # geo.rows[g][BoundaryColumn].t
           /\ result.rows[g].avg_price = input.rows[k].price

-----------------------------------------------------------------------------
(* C22: the saturation scores *)

SaturationCalled == op.name = "get_market_saturation_score" /\ result.exc = "none"

\* st + d * 1e-9 lies in [0, 1]
InUnitInterval(x) ==
    /\ x # NA
    /\ \/ RatLt(Rat(0, 1), x.st) /\ RatLt(x.st, Rat(1, 1))
       \/ x.st = Rat(0, 1) /\ ~RatLt(x.d, Rat(0, 1))
       \/ x.st = Rat(1, 1) /\ ~RatLt(Rat(0, 1), x.d)

\* the listings of the neighbourhood of row r of the result
ListingsOfRow(r) ==
    {k \in 1..Len(input.rows) :
        input.rows[k].neighbourhood_cleansed = result.rows[r].neighbourhood_cleansed}

\* the mean 365-day availability of the neighbourhood of row r (missing when no
\* listing of it has a value)
MeanAvailability(r) == MeanCell(Column(SelectRows(input.rows, ListingsOfRow(r)), "availability_365"))

AvailabilityKnown(r) == MeanAvailability(r) # NA

\* supply_score in [0, 1], never lower for more listings, and 0 when all tie
SupplyScored ==
    \A r \in 1..Len(result.rows) :
        /\ InUnitInterval(result.rows[r].supply_score)
        /\ \A q \in 1..Len(result.rows) :
               Cardinality(ListingsOfRow(r)) > Cardinality(ListingsOfRow(q))
                   => ~ScoreLt(result.rows[r].supply_score, result.rows[q].supply_score)
        /\ (\A q \in 1..Len(result.rows) :
               Cardinality(ListingsOfRow(q)) = Cardinality(ListingsOfRow(r)))
               => result.rows[r].supply_score = Score(Rat(0, 1), Rat(0, 1))

\* over the rows of rs: demand_score in [0, 1], never higher for a higher mean
\* availability, 1 when all tie; saturation_score the mean of the two scores, in [0, 1]
DemandScored(rs) ==
    \A r \in rs :
        LET row == result.rows[r]
        IN  /\ InUnitInterval(row.demand_score)
            /\ \A q \in rs :
                   RatLt(RatOf(MeanAvailability(q)), RatOf(MeanAvailability(r)))
                       => ~ScoreLt(result.rows[q].demand_score, row.demand_score)
            /\ (\A q \in rs : RatOf(MeanAvailability(q)) = RatOf(MeanAvailability(r)))
                   => row.demand_score = Score(Rat(1, 1), Rat(0, 1))
            /\ InUnitInterval(row.saturation_score)
            /\ row.saturation_score.st
                   = RatDiv(RatAdd(row.supply_score.st, row.demand_score.st), Rat(2, 1))
            /\ row.saturation_score.d
                   = RatDiv(RatAdd(row.supply_score.d, row.demand_score.d), Rat(2, 1))

\* saturation_score non-increasing over the rows of rs
SortedBySaturation(rs) ==
    \A r, q \in rs :
        r < q => ~ScoreLt(result.rows[r].saturation_score, result.rows[q].saturation_score)

\* one row per neighbourhood of the held table
OneRowPerNeighbourhood ==
    /\ {result.rows[r].neighbourhood_cleansed : r \in 1..Len(result.rows)}
           = {input.rows[k].neighbourhood_cleansed : k \in 1..Len(input.rows)} \ {NA}
    /\ \A r, q \in 1..Len(result.rows) :
           r # q => result.rows[r].neighbourhood_cleansed # result.rows[q].neighbourhood_cleansed

C22_AllTie ==
    /\ SaturationCalled
    /\ Len(result.rows) > 1
    /\ \A r \in 1..Len(result.rows) :
           result.rows[r].saturation_score = Score(Rat(1, 2), Rat(0, 1))

\* a single neighbourhood
C22_SingleNeighbourhood ==
    /\ SaturationCalled
    /\ Len(result.rows) = 1
    /\ result.rows[1].saturation_score = Score(Rat(1, 2), Rat(0, 1))

\* a neighbourhood without any availability value, scored after the others
C22_UnknownAvailability ==
    /\ SaturationCalled
    /\ Len(result.rows) = 3
    /\ ~AvailabilityKnown(3)
    /\ result.rows[3].saturation_score = NA
    /\ Cardinality(ListingsOfRow(3)) = 2

-----------------------------------------------------------------------------
(* C23: the derived fields *)

MaxDeriveRows == 1

TextUpperT == <<"T">>

\* rows that differ in what the derived fields are computed from
DeriveRows ==
    {[BaseListing EXCEPT !.accommodates = a, !.price = Str(p)] :
        a \in {NA, IntC(0), IntC(2), IntC(3)}, p \in {Text50, Text1000}}
      \cup {[BaseListing EXCEPT !.availability_30 = a] : a \in {NA, IntC(0), IntC(30), IntC(31)}}
      \cup {[BaseListing EXCEPT !.host_is_superhost = f[1], !.instant_bookable = f[2]] :
               f \in {NA, Str(TextT), Str(TextF), Str(TextUpperT), BoolC(TRUE)}
                       \X {NA, Str(TextT), Str(TextF), Str(TextUpperT)}}

DeriveTables ==
    {[cols |-> RawListingCols, rows |-> [i \in 1..Len(rows) |-> [rows[i] EXCEPT !.id = IntC(i)]]] :
        rows \in SeqsUpTo(DeriveRows, MaxDeriveRows)}

InitDerive ==
    /\ pc = "start"
    /\ cfg = [NoCfg EXCEPT !.keys = {"price", "min_reviews"},
                           !.price_min = 50, !.price_max = 1000, !.min_reviews = 3]
    /\ caller \in DeriveTables
    /\ input = caller
    /\ work = NoTable
    /\ dfref = "caller"
    /\ pass = 1
    /\ first = NoTable
    /\ today = Date(2024, 3, 10)
    /\ FnIdle
    /\ AnalyzersIdle

SpecDerive == InitDerive /\ [][NextListings]_vars

FieldsDerived == pc \in {"amenities", "done"}

\* x is the finite number n / d
IsRatio(x, n, d) == IsFinite(x) /\ x.n * d = n * x.d

\* the boolean of a letter flag
FlagDerived(flag, bool) ==
    /\ flag = Str(TextT) => bool = BoolC(TRUE)
    /\ flag = Str(TextF) => bool = BoolC(FALSE)
    /\ flag \notin {Str(TextT), Str(TextF)} => bool = NA

\* C23: clean_listings does not raise in add_calculated_fields, and in every row of
\* the table it leaves price_per_person = price / accommodates, missing when
\* accommodates is zero or missing; est_booked_30 = 30 - availability_30;
\* est_monthly_revenue = price * est_booked_30; is_superhost and
\* is_instant_bookable are true for "t", false for "f" and missing for anything else
C23_DerivedFields ==
    /\ pc # "raised"
    /\ FieldsDerived =>
           \A i \in 1..Len(DF.rows) :
               LET r == DF.rows[i]
               IN  /\ IsFinite(r.price)
                   /\ IF IsFinite(r.accommodates) /\ r.accommodates.n # 0
                      THEN IsRatio(r.price_per_person,
                                   r.price.n * r.accommodates.d, r.price.d * r.accommodates.n)
                      ELSE r.price_per_person = NA
                   /\ IF IsFinite(r.availability_30)
                      THEN /\ IsRatio(r.est_booked_30,
                                      30 * r.availability_30.d - r.availability_30.n,
                                      r.availability_30.d)
                           /\ IsRatio(r.est_monthly_revenue,
                                      r.price.n * r.est_booked_30.n,
                                      r.price.d * r.est_booked_30.d)
                      ELSE r.est_booked_30 = NA /\ r.est_monthly_revenue = NA
                   /\ FlagDerived(r.host_is_superhost, r.is_superhost)
                   /\ FlagDerived(r.instant_bookable, r.is_instant_bookable)

\* $50 for three guests, ten nights free of thirty, the flags "t" and "f"
C23_Witness ==
    /\ FieldsDerived /\ pass = 1
    /\ \E i \in 1..Len(DF.rows) :
           LET r == DF.rows[i]
           IN  /\ r.accommodates = IntC(3)
               /\ r.price_per_person = Float(Rat(50, 3))
               /\ NumEq(r.est_booked_30, IntC(20))
               /\ NumEq(r.est_monthly_revenue, IntC(1000))
               /\ r.is_superhost = BoolC(TRUE)
               /\ r.is_instant_bookable = BoolC(FALSE)

\* a listing that accommodates nobody: no price per person, and no error
C23_ZeroAccommodates ==
    /\ FieldsDerived /\ pass = 1
    /\ \E i \in 1..Len(DF.rows) :
           DF.rows[i].accommodates = IntC(0) /\ DF.rows[i].price_per_person = NA

\* a flag that is neither "t" nor "f"
C23_OtherFlag ==
    /\ FieldsDerived /\ pass = 1
    /\ \E i \in 1..Len(DF.rows) :
           /\ DF.rows[i].host_is_superhost \in {Str(TextUpperT), BoolC(TRUE)}
           /\ DF.rows[i].is_superhost = NA
           /\ DF.rows[i].instant_bookable = NA
           /\ DF.rows[i].is_instant_bookable = NA

-----------------------------------------------------------------------------
(* C24: the order of the stages of clean_listings *)

\* the rows of the raw table that are the first with their id
FirstOccurrences ==
    {i \in 1..Len(input.rows) : \A j \in 1..(i - 1) : input.rows[j].id # input.rows[i].id}

\* the raw row passes the critical-field drop, the price bounds and the activity filter
PassesEveryFilter(raw) ==
    /\ Present(raw.id) /\ Present(raw.latitude) /\ Present(raw.longitude)
    /\ Within(clean_price(raw.price).v, cfg.price_min, cfg.price_max)
    /\ ActiveCriterion(raw)

\* the first occurrences that pass, in the order of the raw table
FilteredFirstOccurrences ==
    SelectRows(input.rows, {i \in FirstOccurrences : PassesEveryFilter(input.rows[i])})

CleanedFromFirstOccurrences ==
    ListingsDone =>
        /\ Len(DF.rows) = Len(FilteredFirstOccurrences)
        /\ \A k \in 1..Len(DF.rows) :
               \A c \in CopiedListingCols : DF.rows[k][c] = FilteredFirstOccurrences[k][c]

RowsNeverAdded == Len(DF'.rows) <= Len(DF.rows)

\* C24: the table returned by clean_listings holds exactly the rows of the raw table
\* that are the first with their id and pass every filter, in raw order, so an id
\* whose first row is dropped is absent even when a later row with that id passes
\* every filter; and no stage leaves more rows than it was given
C24_FirstOccurrenceThenFilters == []CleanedFromFirstOccurrences /\ [][RowsNeverAdded]_vars

\* the first row of an id has a price that does not parse, the second row of that
\* id passes every filter, and nothing is returned
C24_Witness ==
    /\ ListingsDone /\ pass = 1
    /\ Len(input.rows) = 2 /\ Len(DF.rows) = 0
    /\ input.rows[1].id = input.rows[2].id
    /\ input.rows[1].price = Str(TextAbc)
    /\ PassesEveryFilter(input.rows[2])

\* the first row of an id is inactive, the second row of that id passes every filter
C24_InactiveFirst ==
    /\ ListingsDone /\ pass = 1
    /\ Len(input.rows) = 2 /\ Len(DF.rows) = 0
    /\ input.rows[1].id = input.rows[2].id
    /\ Present(clean_price(input.rows[1].price).v)
    /\ ~ActiveCriterion(input.rows[1])
    /\ PassesEveryFilter(input.rows[2])

\* the first row of an id lacks a coordinate, the second row of that id passes
C24_NoCoordinateFirst ==
    /\ ListingsDone /\ pass = 1
    /\ Len(input.rows) = 2 /\ Len(DF.rows) = 0
    /\ input.rows[1].id = input.rows[2].id
    /\ ~Present(input.rows[1].latitude)
    /\ PassesEveryFilter(input.rows[2])

\* the first row of an id is priced out of the bounds, the second row of that id passes
C24_OutOfBoundsFirst ==
    /\ ListingsDone /\ pass = 1
    /\ Len(input.rows) = 2 /\ Len(DF.rows) = 0
    /\ input.rows[1].id = input.rows[2].id
    /\ Present(clean_price(input.rows[1].price).v)
    /\ ~Within(clean_price(input.rows[1].price).v, cfg.price_min, cfg.price_max)
    /\ PassesEveryFilter(input.rows[2])

-----------------------------------------------------------------------------
(* C25: the host shares *)

TopHostsCalled == op.name = "get_top_hosts" /\ result.exc = "none"

\* the (host id, host name) pairs of the held table, both present
HostGroups ==
    {<<input.rows[i].host_id, input.rows[i].host_name>> : i \in 1..Len(input.rows)}
        \ {g \in {<<input.rows[i].host_id, input.rows[i].host_name>> : i \in 1..Len(input.rows)} :
              g[1] = NA \/ g[2] = NA}

ListingsOfGroup(g) ==
    Cardinality({i \in 1..Len(input.rows) :
                    <<input.rows[i].host_id, input.rows[i].host_name>> = g})

ReturnedHosts == {result.rows[r].key : r \in 1..Len(result.rows)}

\* the rows of get_top_hosts: the N largest groups, largest first, each with its
\* count and its share of all the listings
TopHostsRanked ==
    TopHostsCalled =>
        /\ Len(result.rows) <= op.arg.n
        /\ Len(result.rows) = (IF Cardinality(HostGroups) < op.arg.n
                               THEN Cardinality(HostGroups) ELSE op.arg.n)
        /\ ReturnedHosts \subseteq HostGroups
        /\ Cardinality(ReturnedHosts) = Len(result.rows)
        /\ \A r \in 1..Len(result.rows) :
               /\ result.rows[r].listings = ListingsOfGroup(result.rows[r].key)
               /\ IsRatio(result.rows[r].market_share_pct,
                          100 * result.rows[r].listings, Len(input.rows))
               /\ \A q \in 1..Len(result.rows) :
                      r < q => result.rows[r].listings >= result.rows[q].listings
               /\ \A g \in HostGroups \ ReturnedHosts :
                      ListingsOfGroup(g) <= result.rows[r].listings

FewHosts == ConcentrationCalled /\ Len(input.rows) > 0 /\ Cardinality(HostIds) <= 10

\* C25 as stated: the shares sum to 100 on every non-empty table, missing host ids
\* included, so that top_10_host_share_pct = 100 with at most ten hosts
C25_AsStated ==
    /\ FewHosts => IsRatio(result.top_10_host_share_pct, 100, 1)
    /\ TopHostsRanked

\* C25: on a non-empty table the host shares of get_market_concentration sum to
\* 100 * (listings that have a host id) / (all listings), which is what
\* top_10_host_share_pct is with at most ten hosts: 100 when every listing has a
\* host id, less when some have none; and get_top_hosts returns at most N rows, the
\* largest (host id, host name) groups in non-increasing order of listing count,
\* each with market_share_pct = its listing count / all listings * 100
C25_HostShares ==
    /\ FewHosts =>
           /\ IsRatio(result.top_10_host_share_pct, 100 * ListingsOf(HostIds), Len(input.rows))
           /\ IsRatio(result.top_10_host_share_pct, 100, 1) <=> ListingsOf(HostIds) = Len(input.rows)
    /\ TopHostsRanked

\* a listing without a host id next to listings of known hosts: the shares sum to
\* less than 100
C25_Witness ==
    /\ FewHosts
    /\ Cardinality(HostIds) > 0
    /\ ListingsOf(HostIds) < Len(input.rows)
    /\ RatLt(RatOf(result.top_10_host_share_pct), Rat(100, 1))

\* every listing has a host id: the shares of two hosts sum to 100
C25_EveryHostKnown ==
    /\ FewHosts
    /\ Cardinality(HostIds) = 2
    /\ result.top_10_host_share_pct = Float(Rat(100, 1))

\* get_top_hosts(1) on several groups of different size: the largest alone
C25_LargestHost ==
    /\ TopHostsCalled
    /\ op.arg.n = 1
    /\ Cardinality(HostGroups) > 1
    /\ Len(result.rows) = 1
    /\ \E g \in HostGroups : ListingsOfGroup(g) < result.rows[1].listings
    /\ RatLt(RatOf(result.rows[1].market_share_pct), Rat(100, 1))

\* a host listed under two names: one row per name
C25_TwoNames ==
    /\ TopHostsCalled
    /\ \E r, q \in 1..Len(result.rows) :
           /\ r # q
           /\ result.rows[r].key[1] = result.rows[q].key[1]

-----------------------------------------------------------------------------
(* C26: the segment summary *)

SegmentsCalled == op.name = "segment_by_price" /\ result.exc = "none"

\* the position in the configuration of the first segment with min <= price < max,
\* 0 when there is none
SegmentIndex(price) ==
    LET holds == {s \in 1..Len(cfg.segments) :
                     /\ IsFinite(price)
                     /\ cfg.segments[s].min * price.d <= price.n
                     /\ price.n < cfg.segments[s].max * price.d}
    IN  IF holds = {} THEN 0 ELSE CHOOSE s \in holds : \A t \in holds : s <= t

ListingsInTier(s) ==
    Cardinality({i \in 1..Len(input.rows) : SegmentIndex(input.rows[i].price) = s})

\* the configured segments that have a listing, in declaration order
OccupiedTiers == SelectRows(cfg.segments, {s \in 1..Len(cfg.segments) : ListingsInTier(s) > 0})

ListingsSummed == RatSum([i \in 1..Len(result.rows) |-> Rat(result.rows[i].listings, 1)])

PctSummed == RatSum([i \in 1..Len(result.rows) |-> RatOf(result.rows[i].pct)])

\* one row per configured segment that has a listing, in declaration order, with the
\* number of its listings
OneRowPerOccupiedTier ==
    /\ Len(result.rows) = Len(OccupiedTiers)
    /\ \A i \in 1..Len(result.rows) :
           /\ result.rows[i].segment = OccupiedTiers[i].label
           /\ \E s \in 1..Len(cfg.segments) :
                  /\ cfg.segments[s] = OccupiedTiers[i]
                  /\ result.rows[i].listings = ListingsInTier(s)

\* C26 as stated: the rows of a non-empty table account for every listing, those
\* priced outside every segment included
C26_AsStated ==
    SegmentsCalled /\ Len(input.rows) > 0 =>
        /\ OneRowPerOccupiedTier
        /\ ListingsSummed = Rat(Len(input.rows), 1)
        /\ PctSummed = Rat(100, 1)

\* C26: segment_by_price returns one row per configured segment label that has at
\* least one listing, in declaration order; pct is the segment's listings as a
\* percentage of all the listings; the listings priced outside every segment
\* (label "Other") have no row, so the counts sum to the number of listings priced
\* inside some segment and the pct values to that number's percentage of all the
\* listings, which are the total and 100 exactly when no listing is outside
C26_SegmentSummary ==
    SegmentsCalled =>
        /\ OneRowPerOccupiedTier
        /\ \A i \in 1..Len(result.rows) :
               /\ result.rows[i].segment # Other
               /\ IsRatio(result.rows[i].pct, 100 * result.rows[i].listings, Len(input.rows))
        /\ ListingsSummed = Rat(Len(input.rows) - ListingsInTier(0), 1)
        /\ Len(input.rows) > 0 =>
               PctSummed = Rat(100 * (Len(input.rows) - ListingsInTier(0)), Len(input.rows))

\* a listing priced outside every segment next to listings of two segments, and a
\* segment without any listing between them
C26_Witness ==
    /\ SegmentsCalled
    /\ ListingsInTier(0) > 0
    /\ Len(result.rows) = 2
    /\ Len(cfg.segments) > 2
    /\ RatLt(PctSummed, Rat(100, 1))
    /\ RatLt(ListingsSummed, Rat(Len(input.rows), 1))

\* every listing is priced inside a segment
C26_NoneOutside ==
    /\ SegmentsCalled
    /\ Len(result.rows) = 2
    /\ ListingsInTier(0) = 0
    /\ PctSummed = Rat(100, 1)
    /\ result.rows[1].listings # result.rows[2].listings
====
